---- MODULE Spec2Model ----
(***************************************************************************)
(* Verification model of the storage-engine core of CMU-15445-2021:        *)
(* the LRU replacer, the parallel buffer pool's page allocation, the       *)
(* extendible hash table (directory + bucket pages) and the B+ tree with   *)
(* its iterator.  Each component has its own specification (SpecLRU,       *)
(* SpecPBPM, SpecHash, SpecTree, SpecBucket; SpecLRUThreads,               *)
(* SpecTreeThreads, SpecTreeOnce and SpecHashThreads for calls from        *)
(* several threads) over the shared variable list; the variables of the    *)
(* other components stay at their initial values.                          *)
(***************************************************************************)
EXTENDS Integers, Sequences, FiniteSets, TLC

(***************************************************************************)
(* Bounds of the model.                                                    *)
(***************************************************************************)
NumFrames == 3
MaxCapacity == 2
MaxClock == 5
NumLRUThreads == 2
MaxThreadClock == 3
NumInstances == 3
PoolSize == 1
NumCallers == 2
MaxCalls == 4
MAX_DEPTH == 3
BUCKET_ARRAY_SIZE == 2
NumHashKeys == 4
NumHashValues == 2
MaxHashOps == 6
MaxTwinOps == 4
MaxBucketOps == 6
LEAF_MAX_SIZE == 3
INTERNAL_MAX_SIZE == 3
NumTreeKeys == 5
NumTreeValues == 2
MaxTreeOps == 7
MaxTreeFileCalls == 2
NumTreeThreads == 2
MaxTreeThreadOps == 3
MaxTreeLoad == 8
NumHashThreads == 2
MaxHashThreadOps == 4

VARIABLES
    \* ---- LRUReplacer (lru_replacer.cpp) ----
    capacity_,      \* capacity_ : the bound given to the constructor
    lst_,           \* lst_ : std::list<frame_id_t>, front first; each node has an identity
    mp_,            \* mp_ : frame id -> list iterator (the identity of a node of lst_)
    lru_clock,      \* ghost: number of effective Unpin calls so far
    lru_stamp,      \* ghost: frame id -> clock value of the Unpin that put it in the replacer
    lru_last,       \* ghost: the last call and what it returned
    \* ---- ParallelBufferPoolManager (parallel_buffer_pool_manager.cpp) ----
    start_index_,   \* start_index_
    latch_holder,   \* latch_ : 0 when free, else the caller holding it
    bpi_free,       \* per instance: frames it can still hand out (free or evictable)
    np_pc,          \* per caller: position inside NewPgImp
    np_curr,        \* per caller: local curr_index
    np_i,           \* per caller: loop variable i
    np_page,        \* per caller: local page (0 = nullptr, else 1 + instance that allocated)
    np_log,         \* ghost, per caller: <<instance, succeeded>> of every instance call made
    np_calls,       \* ghost: number of NewPgImp calls started
    \* ---- ExtendibleHashTable (extendible_hash_table.cpp, first implementation) ----
    hash_fn_,       \* hash_fn_ : the hash function given to the constructor
    ht_ops,         \* ghost: number of Insert and Remove calls so far
    ht_dir,         \* the directory page: global_depth_, local_depths_[], bucket_page_ids_[]
    ht_buckets,     \* bucket page id -> bucket page (occupied_, readable_, array_)
    ht_status,      \* "ok", or how the table left defined behaviour
    ht_ref,         \* ghost: the reference set of (key, value) pairs
    ht_last,        \* ghost: the last call, what it returned, how often it split or merged
    \* ---- BPlusTree (b_plus_tree.cpp) and IndexIterator (index_iterator.cpp) ----
    root_page_id_,  \* root_page_id_
    bt_pages,       \* page id -> tree page (header fields, key array, value array)
    bt_ops,         \* ghost: number of Insert and Remove calls so far
    bt_ref,         \* ghost: the reference set of (key, value) pairs
    bt_last,        \* ghost: the last call, its key, whether the key was stored, whether
                    \* the call before was the same operation on the same key, the result
    bt_header,      \* the header page (page 0): the records <<index name, root page id>>
    bt_scan,        \* the keys the last scan Begin() .. IsEnd() yielded, and how it ended
    \* ---- HashTableBucketPage (hash_table_bucket_page.cpp), one page used on its own ----
    bp_page,        \* the bucket page: occupied_, readable_, array_
    bp_ops,         \* ghost: number of calls so far
    bp_last,        \* ghost: the last call, its arguments, its result, the page before it
    \* ---- LRUReplacer called from several threads ----
    latch_,         \* LRUReplacer::latch_ : 0 when free, else the thread that locked it
    lru_pc,         \* per thread: "idle", or the operation it is inside and where
    lru_arg,        \* per thread: the frame id argument of the call
    lru_size,       \* what the last Size() returned (-1: none yet)
    \* ---- BPlusTree called from several threads ----
    ct_tree,        \* the tree: root_page_id_, the pages, the header page, the pin counts
    ct_th,          \* per thread: the operation it is in, its locals, the latches it holds
    ct_ref,         \* ghost: the pairs a sequential tree would hold
    ct_ops,         \* ghost: number of operations started
    \* ---- ExtendibleHashTable called from several threads (ht_dir, ht_buckets too) ----
    ch_th,          \* per thread: the operation it is in, its locals, where it waits
    ch_ops,         \* ghost: number of calls started, the loading of the table included
    \* ---- ExtendibleHashTable, second implementation, given the calls of the first ----
    h2_dir,         \* its directory page
    h2_buckets,     \* its bucket pages
    h2_status,      \* "ok", or how it left defined behaviour
    h2_last,        \* ghost: what the last call returned in the first and in the second
    \* ---- the readable_ bitmap of a bucket page of any size ----
    bm_size,        \* BUCKET_ARRAY_SIZE of the instantiation (0: none chosen yet)
    bm_signed,      \* whether char is a signed type in the build
    bm_readable     \* readable_ : the bytes as stored, 0..255

lruVars == <<capacity_, lst_, mp_, lru_clock, lru_stamp, lru_last>>
pbpmVars == <<start_index_, latch_holder, bpi_free, np_pc, np_curr, np_i, np_page, np_log, np_calls>>
hashVars == <<hash_fn_, ht_ops, ht_dir, ht_buckets, ht_status, ht_ref, ht_last>>
treeVars == <<root_page_id_, bt_pages, bt_header, bt_ops, bt_ref, bt_last, bt_scan>>
bucketVars == <<bp_page, bp_ops, bp_last>>
lruThreadVars == <<latch_, lru_pc, lru_arg, lru_size>>
treeThreadVars == <<ct_tree, ct_th, ct_ref, ct_ops>>
hashThreadVars == <<ch_th, ch_ops>>
hashTwinVars == <<h2_dir, h2_buckets, h2_status, h2_last>>
bitmapVars == <<bm_size, bm_signed, bm_readable>>
notTreeThreadVars == <<lruVars, pbpmVars, hashVars, treeVars, bucketVars, lruThreadVars, hashThreadVars, hashTwinVars, bitmapVars>>
vars == <<lruVars, pbpmVars, hashVars, treeVars, bucketVars, lruThreadVars, treeThreadVars, hashThreadVars, hashTwinVars, bitmapVars>>

Frames == 0..(NumFrames - 1)
NoFrame == -1

(***************************************************************************)
(* LRUReplacer                                                             *)
(***************************************************************************)
RECURSIVE SeqRemoveNode(_, _)
\* std::list::erase(iterator): drop the node the iterator names
SeqRemoveNode(s, node) ==
    IF s = <<>> THEN <<>>
    ELSE IF Head(s).node = node THEN Tail(s)
    ELSE <<Head(s)>> \o SeqRemoveNode(Tail(s), node)

ListFrames(s) == {s[i].frame : i \in 1..Len(s)}
ListNodes(s) == {s[i].node : i \in 1..Len(s)}

\* a fresh list node: any identity not in use names the same successor state,
\* so the smallest one is taken
NewNode(s) == CHOOSE n \in 1..(Len(s) + 1) : n \notin ListNodes(s)

\* LRUReplacer::Size
LRUSize == Cardinality(DOMAIN mp_)

LRUInit ==
    /\ capacity_ = MaxCapacity
    /\ lst_ = <<>>
    /\ mp_ = <<>>
    /\ lru_clock = 0
    /\ lru_stamp = [f \in Frames |-> 0]
    /\ lru_last = [op |-> "none", frame |-> NoFrame, ret |-> FALSE]

\* a slip in Victim: the front of the list, the most recent Unpin, is taken
VictimFront ==
    /\ IF DOMAIN mp_ = {}
       THEN /\ lru_last' = [op |-> "Victim", frame |-> NoFrame, ret |-> FALSE]
            /\ UNCHANGED <<lst_, mp_>>
       ELSE LET front == lst_[1] IN
            /\ lru_last' = [op |-> "Victim", frame |-> front.frame, ret |-> TRUE]
            /\ mp_' = [f \in (DOMAIN mp_) \ {front.frame} |-> mp_[f]]
            /\ lst_' = Tail(lst_)
    /\ UNCHANGED <<capacity_, lru_clock, lru_stamp>>

\* LRUReplacer::Victim
Victim ==
    /\ IF DOMAIN mp_ = {}
       THEN /\ lru_last' = [op |-> "Victim", frame |-> NoFrame, ret |-> FALSE]
            /\ UNCHANGED <<lst_, mp_>>
       ELSE LET back == lst_[Len(lst_)] IN
            /\ lru_last' = [op |-> "Victim", frame |-> back.frame, ret |-> TRUE]
            /\ mp_' = [f \in (DOMAIN mp_) \ {back.frame} |-> mp_[f]]
            /\ lst_' = SubSeq(lst_, 1, Len(lst_) - 1)
    /\ UNCHANGED <<capacity_, lru_clock, lru_stamp>>

\* LRUReplacer::Pin
Pin(f) ==
    /\ IF f \in DOMAIN mp_
       THEN /\ lst_' = SeqRemoveNode(lst_, mp_[f])
            /\ mp_' = [g \in (DOMAIN mp_) \ {f} |-> mp_[g]]
       ELSE UNCHANGED <<lst_, mp_>>
    /\ lru_last' = [op |-> "Pin", frame |-> f, ret |-> (f \in DOMAIN mp_)]
    /\ UNCHANGED <<capacity_, lru_clock, lru_stamp>>

\* a slip in Unpin: the capacity test is left out
UnpinInsertsAnySize(f) == f \notin DOMAIN mp_

\* Unpin, line 51: the frame is absent and the replacer is not at capacity
UnpinInserts(f) == f \notin DOMAIN mp_ /\ Cardinality(DOMAIN mp_) # capacity_

\* a slip in Unpin: a frame already in the replacer is moved to the front
UnpinRefreshes(f) ==
    /\ lru_clock < MaxClock
    /\ IF f \in DOMAIN mp_ \/ Cardinality(DOMAIN mp_) # capacity_
       THEN LET rest == IF f \in DOMAIN mp_ THEN SeqRemoveNode(lst_, mp_[f]) ELSE lst_
                n == NewNode(rest)
            IN /\ lst_' = <<[node |-> n, frame |-> f]>> \o rest
               /\ mp_' = [g \in (DOMAIN mp_) \cup {f} |-> IF g = f THEN n ELSE mp_[g]]
               /\ lru_clock' = lru_clock + 1
               /\ lru_stamp' = [lru_stamp EXCEPT ![f] = lru_clock + 1]
       ELSE UNCHANGED <<lst_, mp_, lru_clock, lru_stamp>>
    /\ lru_last' = [op |-> "Unpin", frame |-> f, ret |-> UnpinInserts(f)]
    /\ UNCHANGED capacity_

\* LRUReplacer::Unpin
Unpin(f) ==
    /\ lru_clock < MaxClock
    /\ IF UnpinInserts(f)
       THEN LET n == NewNode(lst_) IN
            /\ lst_' = <<[node |-> n, frame |-> f]>> \o lst_
            /\ mp_' = [g \in (DOMAIN mp_) \cup {f} |-> IF g = f THEN n ELSE mp_[g]]
            /\ lru_clock' = lru_clock + 1
            /\ lru_stamp' = [lru_stamp EXCEPT ![f] = lru_clock + 1]
       ELSE UNCHANGED <<lst_, mp_, lru_clock, lru_stamp>>
    /\ lru_last' = [op |-> "Unpin", frame |-> f, ret |-> UnpinInserts(f)]
    /\ UNCHANGED capacity_

LRUNext ==
    \/ Victim
    \/ \E f \in Frames : Pin(f)
    \/ \E f \in Frames : Unpin(f)

(***************************************************************************)
(* LRUReplacer called from several threads.  Victim, Pin and Unpin lock    *)
(* latch_, run their body and unlock; Size() reads mp_.size() without      *)
(* locking.                                                                *)
(***************************************************************************)
LRUThreads == 1..NumLRUThreads

LRUThreadsInit ==
    /\ latch_ = 0
    /\ lru_pc = [t \in LRUThreads |-> "idle"]
    /\ lru_arg = [t \in LRUThreads |-> NoFrame]
    /\ lru_size = -1

\* the threads that hold latch_ and are inside the body of Victim, Pin or Unpin
InsideLocked == {t \in LRUThreads : lru_pc[t] \in {"Victim", "Pin", "Unpin"}}

\* latch_.lock() at the head of Victim (22), Pin (38), Unpin (49): blocks while another thread holds latch_
LockLatch(t, op, f) ==
    /\ lru_pc[t] = "idle"
    /\ latch_ = 0
    /\ op = "Unpin" => lru_clock < MaxThreadClock
    /\ latch_' = t
    /\ lru_pc' = [lru_pc EXCEPT ![t] = op]
    /\ lru_arg' = [lru_arg EXCEPT ![t] = f]
    /\ UNCHANGED <<lruVars, lru_size>>

\* the body of Victim, Pin or Unpin up to latch_.unlock()
LockedBody(t) ==
    /\ lru_pc[t] \in {"Victim", "Pin", "Unpin"}
    /\ \/ lru_pc[t] = "Victim" /\ Victim
       \/ lru_pc[t] = "Pin" /\ Pin(lru_arg[t])
       \/ lru_pc[t] = "Unpin" /\ Unpin(lru_arg[t])
    /\ lru_pc' = [lru_pc EXCEPT ![t] = "unlock"]
    /\ UNCHANGED <<latch_, lru_arg, lru_size>>

\* latch_.unlock() and return
UnlockLatch(t) ==
    /\ lru_pc[t] = "unlock"
    /\ latch_' = 0
    /\ lru_pc' = [lru_pc EXCEPT ![t] = "idle"]
    /\ lru_arg' = [lru_arg EXCEPT ![t] = NoFrame]
    /\ UNCHANGED <<lruVars, lru_size>>

\* Size() is entered: no lock is taken
SizeEnter(t) ==
    /\ lru_pc[t] = "idle"
    /\ lru_pc' = [lru_pc EXCEPT ![t] = "Size"]
    /\ UNCHANGED <<lruVars, latch_, lru_arg, lru_size>>

\* Size() reads mp_.size() and returns.  A read that runs while another thread
\* is inside the body of a locked operation is a data race, and may return anything.
SizeRead(t) ==
    /\ lru_pc[t] = "Size"
    /\ \E n \in 0..NumFrames :
          /\ (InsideLocked = {}) => n = LRUSize
          /\ lru_size' = n
    /\ lru_pc' = [lru_pc EXCEPT ![t] = "idle"]
    /\ UNCHANGED <<lruVars, latch_, lru_arg>>

LRUThreadsNext ==
    \/ \E t \in LRUThreads : LockLatch(t, "Victim", NoFrame)
    \/ \E t \in LRUThreads, f \in Frames : LockLatch(t, "Pin", f)
    \/ \E t \in LRUThreads, f \in Frames : LockLatch(t, "Unpin", f)
    \/ \E t \in LRUThreads : LockedBody(t)
    \/ \E t \in LRUThreads : UnlockLatch(t)
    \/ \E t \in LRUThreads : SizeEnter(t)
    \/ \E t \in LRUThreads : SizeRead(t)

(***************************************************************************)
(* ParallelBufferPoolManager::NewPgImp                                     *)
(***************************************************************************)
Instances == 0..(NumInstances - 1)
Callers == 1..NumCallers

PBPMInit ==
    /\ start_index_ = 0
    /\ latch_holder = 0
    /\ bpi_free = [inst \in Instances |-> PoolSize]
    /\ np_pc = [c \in Callers |-> "idle"]
    /\ np_curr = [c \in Callers |-> 0]
    /\ np_i = [c \in Callers |-> 0]
    /\ np_page = [c \in Callers |-> 0]
    /\ np_log = [c \in Callers |-> <<>>]
    /\ np_calls = 0

\* BufferPoolManagerInstance::NewPgImp: a page iff the instance has a free or
\* evictable frame
InstanceNewPgImp(free, inst) == free[inst] > 0

\* NewPgImp, entry and latch_.lock()
NewPgLock(c) ==
    /\ np_pc[c] = "idle"
    /\ np_calls < MaxCalls
    /\ latch_holder = 0
    /\ latch_holder' = c
    /\ np_pc' = [np_pc EXCEPT ![c] = "locked"]
    /\ np_log' = [np_log EXCEPT ![c] = <<>>]
    /\ np_page' = [np_page EXCEPT ![c] = 0]
    /\ np_calls' = np_calls + 1
    /\ UNCHANGED <<start_index_, bpi_free, np_curr, np_i>>

\* a slip in NewPgImp: the start index is read and left as it is
NewPgReadStartNoBump(c) ==
    /\ np_pc[c] = "locked"
    /\ np_curr' = [np_curr EXCEPT ![c] = start_index_]
    /\ latch_holder' = 0
    /\ np_i' = [np_i EXCEPT ![c] = 0]
    /\ np_pc' = [np_pc EXCEPT ![c] = "loop"]
    /\ UNCHANGED <<start_index_, bpi_free, np_page, np_log, np_calls>>

\* curr_index = start_index_; start_index_ = (start_index_ + 1) % num_instances_; latch_.unlock()
NewPgReadStart(c) ==
    /\ np_pc[c] = "locked"
    /\ np_curr' = [np_curr EXCEPT ![c] = start_index_]
    /\ start_index_' = (start_index_ + 1) % NumInstances
    /\ latch_holder' = 0
    /\ np_i' = [np_i EXCEPT ![c] = 0]
    /\ np_pc' = [np_pc EXCEPT ![c] = "loop"]
    /\ UNCHANGED <<bpi_free, np_page, np_log, np_calls>>

\* a slip in the loop: the instances are tried from instance 0, not from curr_index
NewPgTryFromZero(c) ==
    /\ np_pc[c] = "loop"
    /\ np_i[c] < NumInstances
    /\ LET inst == np_i[c] % NumInstances
           ok == InstanceNewPgImp(bpi_free, inst)
       IN /\ np_log' = [np_log EXCEPT ![c] = Append(@, <<inst, ok>>)]
          /\ IF ok
             THEN /\ bpi_free' = [bpi_free EXCEPT ![inst] = @ - 1]
                  /\ np_page' = [np_page EXCEPT ![c] = inst + 1]
                  /\ np_pc' = [np_pc EXCEPT ![c] = "done"]
                  /\ UNCHANGED np_i
             ELSE /\ np_i' = [np_i EXCEPT ![c] = @ + 1]
                  /\ UNCHANGED <<bpi_free, np_page, np_pc>>
    /\ UNCHANGED <<start_index_, latch_holder, np_curr, np_calls>>

\* one iteration of the for loop: call the instance, break on success
NewPgTry(c) ==
    /\ np_pc[c] = "loop"
    /\ np_i[c] < NumInstances
    /\ LET inst == (np_curr[c] + np_i[c]) % NumInstances
           ok == InstanceNewPgImp(bpi_free, inst)
       IN /\ np_log' = [np_log EXCEPT ![c] = Append(@, <<inst, ok>>)]
          /\ IF ok
             THEN /\ bpi_free' = [bpi_free EXCEPT ![inst] = @ - 1]
                  /\ np_page' = [np_page EXCEPT ![c] = inst + 1]
                  /\ np_pc' = [np_pc EXCEPT ![c] = "done"]
                  /\ UNCHANGED np_i
             ELSE /\ np_i' = [np_i EXCEPT ![c] = @ + 1]
                  /\ UNCHANGED <<bpi_free, np_page, np_pc>>
    /\ UNCHANGED <<start_index_, latch_holder, np_curr, np_calls>>

\* the loop ran out: return page (nullptr)
NewPgExhausted(c) ==
    /\ np_pc[c] = "loop"
    /\ np_i[c] >= NumInstances
    /\ np_pc' = [np_pc EXCEPT ![c] = "done"]
    /\ UNCHANGED <<start_index_, latch_holder, bpi_free, np_curr, np_i, np_page, np_log, np_calls>>

\* the caller takes the result; the next call may start
NewPgReturn(c) ==
    /\ np_pc[c] = "done"
    /\ np_pc' = [np_pc EXCEPT ![c] = "idle"]
    /\ UNCHANGED <<start_index_, latch_holder, bpi_free, np_curr, np_i, np_page, np_log, np_calls>>

\* another user of an instance unpins or deletes a page: one more frame to hand out
InstanceFrameFreed(inst) ==
    /\ bpi_free[inst] < PoolSize
    /\ bpi_free' = [bpi_free EXCEPT ![inst] = @ + 1]
    /\ UNCHANGED <<start_index_, latch_holder, np_pc, np_curr, np_i, np_page, np_log, np_calls>>

\* another user of an instance fetches a page through FetchPgImp: one frame fewer
InstanceFrameTaken(inst) ==
    /\ bpi_free[inst] > 0
    /\ bpi_free' = [bpi_free EXCEPT ![inst] = @ - 1]
    /\ UNCHANGED <<start_index_, latch_holder, np_pc, np_curr, np_i, np_page, np_log, np_calls>>

PBPMNext ==
    \/ \E c \in Callers : NewPgLock(c)
    \/ \E c \in Callers : NewPgReadStart(c)
    \/ \E c \in Callers : NewPgTry(c)
    \/ \E c \in Callers : NewPgExhausted(c)
    \/ \E c \in Callers : NewPgReturn(c)
    \/ \E inst \in Instances : InstanceFrameFreed(inst)
    \/ \E inst \in Instances : InstanceFrameTaken(inst)


(***************************************************************************)
(* Bit arithmetic on naturals                                              *)
(***************************************************************************)
Pow2(n) == 2 ^ n
\* x & ((1 << bits) - 1)
LowBits(x, bits) == x % Pow2(bits)
\* (x >> b) & 1
BitOf(x, b) == (x \div Pow2(b)) % 2
\* x ^ (1 << b)
FlipBit(x, b) == IF BitOf(x, b) = 1 THEN x - Pow2(b) ELSE x + Pow2(b)
\* x | (1 << b)
OrBit(x, b) == IF BitOf(x, b) = 1 THEN x ELSE x + Pow2(b)
\* x & ~(1 << b)
AndNotBit(x, b) == IF BitOf(x, b) = 1 THEN x - Pow2(b) ELSE x

(***************************************************************************)
(* HashTableBucketPage: occupied_ and readable_ are arrays of bytes,       *)
(* array_ holds BUCKET_ARRAY_SIZE pairs; slots are numbered from 0.        *)
(***************************************************************************)
HashKeys == 0..(NumHashKeys - 1)
HashValues == 1..NumHashValues
Slots == 0..(BUCKET_ARRAY_SIZE - 1)
BitmapBytes == 0..((BUCKET_ARRAY_SIZE - 1) \div 8)

\* a page as NewPage hands it out: all bytes zero
ZeroBucket ==
    [occupied_ |-> [b \in BitmapBytes |-> 0],
     readable_ |-> [b \in BitmapBytes |-> 0],
     array_ |-> [i \in Slots |-> <<0, 0>>]]

IsOccupied(bkt, i) == BitOf(bkt.occupied_[i \div 8], i % 8) = 1
IsReadable(bkt, i) == BitOf(bkt.readable_[i \div 8], i % 8) = 1
SetOccupied(bkt, i) == [bkt EXCEPT !.occupied_[i \div 8] = OrBit(@, i % 8)]
SetReadable(bkt, i) == [bkt EXCEPT !.readable_[i \div 8] = OrBit(@, i % 8)]
\* a slip in RemoveAt: the occupied bit is cleared, not the readable bit
RemoveAtClearsOccupied(bkt, i) == [bkt EXCEPT !.occupied_[i \div 8] = AndNotBit(@, i % 8)]
RemoveAt(bkt, i) == [bkt EXCEPT !.readable_[i \div 8] = AndNotBit(@, i % 8)]

\* the slots a scan visits before it breaks at the first non-occupied slot
ScanRange(bkt) ==
    {i \in Slots : \A j \in 0..i : IsOccupied(bkt, j)}

\* HashTableBucketPage::IsFull
IsFull(bkt) ==
    LET n == (BUCKET_ARRAY_SIZE - 1) \div 8 IN
    /\ \A b \in 0..(n - 1) : bkt.readable_[b] = 255
    /\ \A j \in 0..(BUCKET_ARRAY_SIZE - 8 * n - 1) : BitOf(bkt.readable_[n], j) = 1

\* HashTableBucketPage::IsEmpty
IsEmpty(bkt) == \A b \in BitmapBytes : bkt.readable_[b] = 0

\* HashTableBucketPage::IsExist
IsExist(bkt, key, value) ==
    \E i \in ScanRange(bkt) : bkt.array_[i] = <<key, value>> /\ IsReadable(bkt, i)

\* the lowest slot whose readable bit is clear (the slot the second loop stops at)
FirstNonReadable(bkt) ==
    CHOOSE i \in Slots : /\ ~IsReadable(bkt, i)
                         /\ \A j \in 0..(i - 1) : IsReadable(bkt, j)

\* a slip in Insert: the pair goes to the first slot never occupied
InsertAtFirstUnoccupied(bkt, key, value) ==
    IF IsFull(bkt) \/ IsExist(bkt, key, value)
    THEN [bucket |-> bkt, ok |-> FALSE]
    ELSE IF \E i \in Slots : ~IsOccupied(bkt, i)
         THEN LET i == CHOOSE i \in Slots : /\ ~IsOccupied(bkt, i)
                                            /\ \A j \in 0..(i - 1) : IsOccupied(bkt, j)
              IN [bucket |-> SetReadable(SetOccupied([bkt EXCEPT !.array_[i] = <<key, value>>], i), i),
                  ok |-> TRUE]
         ELSE [bucket |-> bkt, ok |-> TRUE]

\* HashTableBucketPage::Insert
Insert(bkt, key, value) ==
    IF IsFull(bkt)
    THEN [bucket |-> bkt, ok |-> FALSE]
    ELSE IF \E i \in ScanRange(bkt) : bkt.array_[i] = <<key, value>> /\ IsReadable(bkt, i)
         THEN [bucket |-> bkt, ok |-> FALSE]
         ELSE IF \E i \in Slots : ~IsReadable(bkt, i)
              THEN LET i == FirstNonReadable(bkt)
                   IN [bucket |-> SetReadable(SetOccupied([bkt EXCEPT !.array_[i] = <<key, value>>], i), i),
                       ok |-> TRUE]
              ELSE [bucket |-> bkt, ok |-> TRUE]

\* a slip in MyInsert: the loop runs from the last slot down
MyInsertFromLastSlot(bkt, key, value) ==
    IF \E i \in Slots : ~IsReadable(bkt, i)
    THEN LET i == CHOOSE i \in Slots :
                    /\ ~IsReadable(bkt, i)
                    /\ \A j \in (i + 1)..(BUCKET_ARRAY_SIZE - 1) : IsReadable(bkt, j)
         IN [bucket |-> SetReadable(SetOccupied([bkt EXCEPT !.array_[i] = <<key, value>>], i), i),
             ok |-> TRUE]
    ELSE [bucket |-> bkt, ok |-> FALSE]

\* HashTableBucketPage::MyInsert: the first non-readable slot takes the pair
MyInsert(bkt, key, value) ==
    IF \E i \in Slots : ~IsReadable(bkt, i)
    THEN LET i == CHOOSE i \in Slots :
                    /\ ~IsReadable(bkt, i)
                    /\ \A j \in 0..(i - 1) : IsReadable(bkt, j)
         IN [bucket |-> SetReadable(SetOccupied([bkt EXCEPT !.array_[i] = <<key, value>>], i), i),
             ok |-> TRUE]
    ELSE [bucket |-> bkt, ok |-> FALSE]

\* HashTableBucketPage::Remove
Remove(bkt, key, value) ==
    IF \E i \in ScanRange(bkt) : bkt.array_[i] = <<key, value>> /\ IsReadable(bkt, i)
    THEN LET i == CHOOSE i \in ScanRange(bkt) :
                    /\ bkt.array_[i] = <<key, value>> /\ IsReadable(bkt, i)
                    /\ \A j \in 0..(i - 1) : ~(bkt.array_[j] = <<key, value>> /\ IsReadable(bkt, j))
         IN [bucket |-> RemoveAt(bkt, i), ok |-> TRUE]
    ELSE [bucket |-> bkt, ok |-> FALSE]

\* HashTableBucketPage::MyRemove
MyRemove(bkt, key, value) ==
    IF IsExist(bkt, key, value)
    THEN LET i == CHOOSE i \in ScanRange(bkt) :
                    /\ bkt.array_[i] = <<key, value>> /\ IsReadable(bkt, i)
                    /\ \A j \in 0..(i - 1) : ~(bkt.array_[j] = <<key, value>> /\ IsReadable(bkt, j))
         IN [bucket |-> RemoveAt(bkt, i), ok |-> TRUE]
    ELSE [bucket |-> bkt, ok |-> FALSE]

RECURSIVE ScanFrom(_, _, _)
\* the readable pairs a scan collects from slot i on, in slot order, up to the first slot never occupied
ScanFrom(bkt, i, key) ==
    IF i >= BUCKET_ARRAY_SIZE \/ ~IsOccupied(bkt, i) THEN <<>>
    ELSE (IF IsReadable(bkt, i) /\ (key = -1 \/ bkt.array_[i][1] = key)
          THEN <<bkt.array_[i]>> ELSE <<>>) \o ScanFrom(bkt, i + 1, key)

\* HashTableBucketPage::MyGetValue: the pairs whose values are appended to result
MyGetValue(bkt, key) == ScanFrom(bkt, 0, key)

\* HashTableBucketPage::GetAllPairs
GetAllPairs(bkt) == ScanFrom(bkt, 0, -1)

\* HashTableBucketPage::Clear
Clear(bkt) ==
    [bkt EXCEPT !.occupied_ = [b \in BitmapBytes |-> 0],
                !.readable_ = [b \in BitmapBytes |-> 0]]

(***************************************************************************)
(* One bucket page driven through its public methods                       *)
(***************************************************************************)
BucketInit ==
    /\ bp_page = ZeroBucket
    /\ bp_ops = 0
    /\ bp_last = [op |-> "none", key |-> 0, value |-> 0, slot |-> 0, ret |-> FALSE, before |-> ZeroBucket]

BucketCall(op, key, value, slot, r) ==
    /\ bp_ops < MaxBucketOps
    /\ bp_ops' = bp_ops + 1
    /\ bp_page' = r.bucket
    /\ bp_last' = [op |-> op, key |-> key, value |-> value, slot |-> slot, ret |-> r.ok, before |-> bp_page]

BucketInsertCall(key, value) == BucketCall("Insert", key, value, 0, Insert(bp_page, key, value))
BucketMyInsertCall(key, value) == BucketCall("MyInsert", key, value, 0, MyInsert(bp_page, key, value))
BucketRemoveCall(key, value) == BucketCall("Remove", key, value, 0, Remove(bp_page, key, value))
BucketMyRemoveCall(key, value) == BucketCall("MyRemove", key, value, 0, MyRemove(bp_page, key, value))
BucketRemoveAtCall(i) == BucketCall("RemoveAt", 0, 0, i, [bucket |-> RemoveAt(bp_page, i), ok |-> TRUE])
BucketClearCall == BucketCall("Clear", 0, 0, 0, [bucket |-> Clear(bp_page), ok |-> TRUE])

BucketNext ==
    \/ \E key \in HashKeys, value \in HashValues : BucketInsertCall(key, value)
    \/ \E key \in HashKeys, value \in HashValues : BucketMyInsertCall(key, value)
    \/ \E key \in HashKeys, value \in HashValues : BucketRemoveCall(key, value)
    \/ \E key \in HashKeys, value \in HashValues : BucketMyRemoveCall(key, value)
    \/ \E i \in Slots : BucketRemoveAtCall(i)
    \/ BucketClearCall

(***************************************************************************)
(* The readable_ bitmap for any BUCKET_ARRAY_SIZE.  A uint32_t value is a  *)
(* pair <<high half, low half>> of 16-bit numbers.                         *)
(***************************************************************************)
MaxBitmapSlots == 12
Half == Pow2(16)

\* the uint32_t with the value n, 0 <= n < 2^31
U32(n) == <<n \div Half, n % Half>>
\* the conversion of a char to uint32_t: a signed char is sign-extended
CharToU32(c, signed) == IF signed /\ c >= 128 THEN <<Half - 1, Half - 256 + c>> ELSE <<0, c>>
\* the value of a char in a comparison (integral promotion)
CharToInt(c, signed) == IF signed /\ c >= 128 THEN c - 256 ELSE c
\* x >> k, 0 <= k < 16
Shr32(x, k) == <<x[1] \div Pow2(k), (x[2] \div Pow2(k)) + (x[1] % Pow2(k)) * Pow2(16 - k)>>
RECURSIVE And16(_, _, _)
\* a & b on 16-bit numbers, from bit i up
And16(a, b, i) == IF i = 16 THEN 0 ELSE BitOf(a, i) * BitOf(b, i) * Pow2(i) + And16(a, b, i + 1)
\* x & y
And32(x, y) == <<And16(x[1], y[1], 0), And16(x[2], y[2], 0)>>
\* x + y modulo 2^32
Add32(x, y) ==
    LET lo == x[2] + y[2]
        hi == x[1] + y[1] + (lo \div Half)
    IN <<hi % Half, lo % Half>>

\* a slip in IsFull: the byte is compared with the int 0xFF, without the cast to char
IsFullComparesInt(readable_, size, signed) ==
    LET n == (size - 1) \div 8 IN
    /\ \A b \in 0..(n - 1) : CharToInt(readable_[b], signed) = 255
    /\ \A j \in 0..(size - 8 * n - 1) :
          And32(CharToU32(readable_[n], signed), U32(Pow2(j))) # U32(0)

\* HashTableBucketPage::IsFull for BUCKET_ARRAY_SIZE = size
IsFullOfSize(readable_, size, signed) ==
    LET n == (size - 1) \div 8 IN
    /\ \A b \in 0..(n - 1) : CharToInt(readable_[b], signed) = CharToInt(255, signed)
    /\ \A j \in 0..(size - 8 * n - 1) :
          And32(CharToU32(readable_[n], signed), U32(Pow2(j))) # U32(0)

\* the three lines that fold curr into the number of its set bits
FoldBits(curr0) ==
    LET curr1 == Add32(And32(Shr32(curr0, 1), U32(85)), And32(curr0, U32(85)))
        curr2 == Add32(And32(Shr32(curr1, 2), U32(51)), And32(curr1, U32(51)))
    IN Add32(Shr32(curr2, 4), And32(curr2, U32(15)))

RECURSIVE NumReadableFrom(_, _, _, _, _)
\* the loop of NumReadable from byte i on, cnt so far
NumReadableFrom(readable_, i, n, cnt, signed) ==
    IF i >= n THEN cnt
    ELSE NumReadableFrom(readable_, i + 1, n, Add32(cnt, FoldBits(CharToU32(readable_[i], signed))), signed)

\* HashTableBucketPage::NumReadable for BUCKET_ARRAY_SIZE = size
NumReadable(readable_, size, signed) ==
    NumReadableFrom(readable_, 0, (size - 1) \div 8 + 1, U32(0), signed)

\* HashTableBucketPage::IsEmpty for BUCKET_ARRAY_SIZE = size
IsEmptyOfSize(readable_, size, signed) ==
    \A b \in 0..((size - 1) \div 8) : CharToInt(readable_[b], signed) = 0

BitmapInit ==
    /\ bm_size = 0
    /\ bm_signed = FALSE
    /\ bm_readable = <<>>

\* the template is instantiated for a size, the build has a signed or an unsigned char,
\* and the page comes zeroed from NewPage
BitmapInstantiate(size, signed) ==
    /\ bm_size = 0
    /\ bm_size' = size
    /\ bm_signed' = signed
    /\ bm_readable' = [b \in 0..((size - 1) \div 8) |-> 0]

\* what Insert and MyInsert do to readable_: SetReadable(i) for the first non-readable slot
BitmapSetReadable ==
    /\ bm_size > 0
    /\ \E i \in 0..(bm_size - 1) :
          /\ BitOf(bm_readable[i \div 8], i % 8) = 0
          /\ \A j \in 0..(i - 1) : BitOf(bm_readable[j \div 8], j % 8) = 1
          /\ bm_readable' = [bm_readable EXCEPT ![i \div 8] = OrBit(@, i % 8)]
    /\ UNCHANGED <<bm_size, bm_signed>>

\* RemoveAt(i), also what Remove and MyRemove do to readable_
BitmapRemoveAt(i) ==
    /\ i < bm_size
    /\ BitOf(bm_readable[i \div 8], i % 8) = 1
    /\ bm_readable' = [bm_readable EXCEPT ![i \div 8] = AndNotBit(@, i % 8)]
    /\ UNCHANGED <<bm_size, bm_signed>>

\* Clear()
BitmapClear ==
    /\ bm_size > 0
    /\ bm_readable' = [b \in DOMAIN bm_readable |-> 0]
    /\ UNCHANGED <<bm_size, bm_signed>>

BitmapNext ==
    \/ \E size \in 1..MaxBitmapSlots, signed \in BOOLEAN : BitmapInstantiate(size, signed)
    \/ BitmapSetReadable
    \/ \E i \in 0..(MaxBitmapSlots - 1) : BitmapRemoveAt(i)
    \/ BitmapClear

(***************************************************************************)
(* HashTableDirectoryPage                                                  *)
(***************************************************************************)
DIRECTORY_ARRAY_SIZE == Pow2(MAX_DEPTH)
DirSlots == 0..(DIRECTORY_ARRAY_SIZE - 1)
DIRECTORY_PAGE_ID == 0

GetGlobalDepth(dir) == dir.global_depth_
GetGlobalDepthMask(dir) == Pow2(dir.global_depth_) - 1
GetLocalDepth(dir, i) == dir.local_depths_[i]
GetLocalDepthMask(dir, i) == Pow2(dir.local_depths_[i]) - 1
GetBucketPageId(dir, i) == dir.bucket_page_ids_[i]
SetBucketPageId(dir, i, pid) == [dir EXCEPT !.bucket_page_ids_[i] = pid]
SetLocalDepth(dir, i, d) == [dir EXCEPT !.local_depths_[i] = d]
IncrLocalDepth(dir, i) == [dir EXCEPT !.local_depths_[i] = @ + 1]
IncrGlobalDepth(dir) == [dir EXCEPT !.global_depth_ = @ + 1]
DirSize(dir) == Pow2(dir.global_depth_)
ActiveSlots(dir) == 0..(DirSize(dir) - 1)

\* HashTableDirectoryPage::CanShrink: when every active slot's local depth is below
\* the global depth, the global depth is decremented
CanShrink(dir) ==
    IF \A i \in ActiveSlots(dir) : dir.local_depths_[i] < dir.global_depth_
    THEN [dir EXCEPT !.global_depth_ = @ - 1]
    ELSE dir

\* the slots a loop "for (i = first; i < n; i += diff)" visits
Stride(first, n, diff) == {i \in 0..(n - 1) : i >= first /\ (i - first) % diff = 0}

(***************************************************************************)
(* ExtendibleHashTable, first implementation: Insert + SplitInsert,        *)
(* Remove + Merge.  A table state T is [dir, buckets, status].             *)
(***************************************************************************)
\* the hash functions the table may be constructed with: the identity, one whose
\* bit 1 is always set, so that four keys reach directory depth 3, and one whose
\* hashes all agree on their low MAX_DEPTH bits
HashFunctions == {[key \in HashKeys |-> key],
                  [key \in HashKeys |-> 2 + (key % 2) + 4 * (key \div 2)],
                  [key \in HashKeys |-> key * Pow2(MAX_DEPTH)]}

\* Hash: static_cast<uint32_t>(hash_fn_.GetHash(key)); the hashes of the model are
\* below 2^31, where the cast changes nothing
Hash(key) == hash_fn_[key]

\* BufferPoolManager::NewPage: a page id not in use; page ids are names, so the
\* smallest free one stands for any fresh id
NewPageId(buckets) ==
    CHOOSE pid \in 1..(Cardinality(DOMAIN buckets) + 1) : pid \notin DOMAIN buckets

\* BufferPoolManager::DeletePage
DeletePage(buckets, pid) == [q \in (DOMAIN buckets) \ {pid} |-> buckets[q]]

RECURSIVE Rehash(_, _, _, _, _)
\* SplitInsert, lines 195-201: each saved pair goes back to the bucket or to its image
Rehash(pairs, bkt, image, mask, index) ==
    IF pairs = <<>> THEN [bucket |-> bkt, image |-> image]
    ELSE LET k == Head(pairs)[1]
             v == Head(pairs)[2]
         IN IF LowBits(Hash(k), mask) = index
            THEN Rehash(Tail(pairs), MyInsert(bkt, k, v).bucket, image, mask, index)
            ELSE Rehash(Tail(pairs), bkt, MyInsert(image, k, v).bucket, mask, index)

RECURSIVE SplitLoop(_, _, _, _)
\* SplitInsert, lines 158-214: while (bucket_page->IsFull()) { split once }.
\* Yields the table, and the index and page id of the bucket the pair goes to.
SplitLoop(T, index, bucket_page_id, key) ==
    IF ~IsFull(T.buckets[bucket_page_id])
    THEN [T |-> T, index |-> index, bucket_page_id |-> bucket_page_id]
    ELSE
    LET dir0 == T.dir
        image_bucket_page_id == NewPageId(T.buckets)
        image_index == FlipBit(index, GetLocalDepth(dir0, index))
        dir1 == IncrLocalDepth(dir0, index)
        local_depth == GetLocalDepth(dir1, index)
        n == Pow2(GetGlobalDepth(dir1))
        diff == Pow2(local_depth)
    IN
    IF local_depth > GetGlobalDepth(dir1) /\ 2 * n > DIRECTORY_ARRAY_SIZE
    THEN \* the mirror loop writes slots i + n beyond the directory arrays
         [T |-> [T EXCEPT !.status = "overflow"], index |-> index, bucket_page_id |-> bucket_page_id]
    ELSE
    LET dir2 ==
            IF local_depth > GetGlobalDepth(dir1)
            THEN LET mirrored ==
                        [dir1 EXCEPT
                            !.bucket_page_ids_ = [i \in DirSlots |->
                                IF i >= n /\ i < 2 * n THEN dir1.bucket_page_ids_[i - n]
                                ELSE dir1.bucket_page_ids_[i]],
                            !.local_depths_ = [i \in DirSlots |->
                                IF i >= n /\ i < 2 * n THEN dir1.local_depths_[i - n]
                                ELSE dir1.local_depths_[i]]]
                 IN SetBucketPageId(IncrGlobalDepth(mirrored), image_index, image_bucket_page_id)
            ELSE [dir1 EXCEPT
                    !.local_depths_ = [i \in DirSlots |->
                        IF i \in Stride(index % diff, n, diff) \cup Stride(image_index % diff, n, diff)
                        THEN local_depth ELSE dir1.local_depths_[i]],
                    !.bucket_page_ids_ = [i \in DirSlots |->
                        IF i \in Stride(image_index % diff, n, diff)
                        THEN image_bucket_page_id ELSE dir1.bucket_page_ids_[i]]]
        result == GetAllPairs(T.buckets[bucket_page_id])
        moved == Rehash(result, Clear(T.buckets[bucket_page_id]), ZeroBucket, local_depth, index)
        buckets2 == [q \in (DOMAIN T.buckets) \cup {image_bucket_page_id} |->
                        IF q = bucket_page_id THEN moved.bucket
                        ELSE IF q = image_bucket_page_id THEN moved.image
                        ELSE T.buckets[q]]
        to_insert_page_id == GetBucketPageId(dir2, LowBits(Hash(key), local_depth))
        T2 == [T EXCEPT !.dir = dir2, !.buckets = buckets2]
    IN IF to_insert_page_id = bucket_page_id
       THEN SplitLoop(T2, index, bucket_page_id, key)
       ELSE SplitLoop(T2, image_index, image_bucket_page_id, key)

\* ExtendibleHashTable::SplitInsert
SplitInsert(T, key, value) ==
    LET index == LowBits(Hash(key), GetGlobalDepth(T.dir))
        bucket_page_id == GetBucketPageId(T.dir, index)
    IN IF IsExist(T.buckets[bucket_page_id], key, value)
       THEN [T |-> T, ret |-> FALSE]
       ELSE LET s == SplitLoop(T, index, bucket_page_id, key)
                ins == MyInsert(s.T.buckets[s.bucket_page_id], key, value)
            IN IF s.T.status # "ok"
               THEN [T |-> s.T, ret |-> FALSE]
               ELSE [T |-> [s.T EXCEPT !.buckets[s.bucket_page_id] = ins.bucket], ret |-> ins.ok]

\* ExtendibleHashTable::Insert
HTInsert(T, key, value) ==
    LET index == LowBits(Hash(key), GetGlobalDepth(T.dir))
        bucket_page_id == GetBucketPageId(T.dir, index)
        bkt == T.buckets[bucket_page_id]
    IN IF IsExist(bkt, key, value)
       THEN [T |-> T, ret |-> FALSE]
       ELSE LET ins == MyInsert(bkt, key, value)
            IN IF ins.ok
               THEN [T |-> [T EXCEPT !.buckets[bucket_page_id] = ins.bucket], ret |-> TRUE]
               ELSE SplitInsert(T, key, value)

\* high_bit = local_depth > 0 ? 1 << (local_depth - 1) : 0;  index ^ high_bit
ImageIndex(index, local_depth) ==
    IF local_depth > 0 THEN FlipBit(index, local_depth - 1) ELSE index

\* a slip in Merge: the second loop, over the image's slots, is left out
MergeDirectoryOneSide(dir, index, image_index, local_depth) ==
    LET image_bucket_page_id == GetBucketPageId(dir, image_index)
        diff == Pow2(local_depth)
        n == Pow2(GetGlobalDepth(dir))
    IN [dir EXCEPT
            !.local_depths_ = [i \in DirSlots |->
                IF i \in Stride(index % diff, n, diff)
                THEN local_depth - 1 ELSE dir.local_depths_[i]],
            !.bucket_page_ids_ = [i \in DirSlots |->
                IF i \in Stride(index % diff, n, diff)
                THEN image_bucket_page_id ELSE dir.bucket_page_ids_[i]]]

\* Merge, lines 282-295: the slots of the emptied bucket take the image's page and the
\* decremented depth, the slots of the image take the decremented depth
MergeDirectory(dir, index, image_index, local_depth) ==
    LET image_bucket_page_id == GetBucketPageId(dir, image_index)
        diff == Pow2(local_depth)
        n == Pow2(GetGlobalDepth(dir))
    IN [dir EXCEPT
            !.local_depths_ = [i \in DirSlots |->
                IF i \in Stride(index % diff, n, diff) \cup Stride(image_index % diff, n, diff)
                THEN local_depth - 1 ELSE dir.local_depths_[i]],
            !.bucket_page_ids_ = [i \in DirSlots |->
                IF i \in Stride(index % diff, n, diff)
                THEN image_bucket_page_id ELSE dir.bucket_page_ids_[i]]]

\* a slip in Merge: "if" in place of "while", one merge at most
MergeOnce(T, index, bucket_page_id, local_depth, image_index) ==
    IF ~(/\ local_depth > 0
         /\ GetLocalDepth(T.dir, image_index) = local_depth
         /\ IsEmpty(T.buckets[bucket_page_id]))
    THEN T
    ELSE [T EXCEPT !.dir = CanShrink(MergeDirectory(T.dir, index, image_index, local_depth)),
                   !.buckets = DeletePage(T.buckets, bucket_page_id)]

RECURSIVE MergeLoop(_, _, _, _, _)
\* Merge, lines 281-312: while the bucket is empty and its image has the same depth
MergeLoop(T, index, bucket_page_id, local_depth, image_index) ==
    IF T.status # "ok" THEN T
    ELSE IF bucket_page_id \notin DOMAIN T.buckets
    THEN [T EXCEPT !.status = "fetch of a deleted page"]
    ELSE IF ~(/\ local_depth > 0
              /\ GetLocalDepth(T.dir, image_index) = local_depth
              /\ IsEmpty(T.buckets[bucket_page_id]))
    THEN T
    ELSE
    LET image_bucket_page_id == GetBucketPageId(T.dir, image_index)
        ld == local_depth - 1
        dir1 == MergeDirectory(T.dir, index, image_index, local_depth)
        dir2 == CanShrink(dir1)
        buckets1 == DeletePage(T.buckets, bucket_page_id)
    IN MergeLoop([T EXCEPT !.dir = dir2, !.buckets = buckets1],
                 index, image_bucket_page_id, ld, ImageIndex(index, ld))

\* ExtendibleHashTable::Merge
Merge(T, key, value) ==
    LET index == LowBits(Hash(key), GetGlobalDepth(T.dir))
        bucket_page_id == GetBucketPageId(T.dir, index)
        local_depth == GetLocalDepth(T.dir, index)
    IN MergeLoop(T, index, bucket_page_id, local_depth, ImageIndex(index, local_depth))

\* ExtendibleHashTable::Remove
HTRemove(T, key, value) ==
    LET index == LowBits(Hash(key), GetGlobalDepth(T.dir))
        bucket_page_id == GetBucketPageId(T.dir, index)
        rem == MyRemove(T.buckets[bucket_page_id], key, value)
        T1 == [T EXCEPT !.buckets[bucket_page_id] = rem.bucket]
        local_depth == GetLocalDepth(T.dir, index)
        image_index == ImageIndex(index, local_depth)
    IN IF rem.ok /\ local_depth > 0 /\ GetLocalDepth(T.dir, image_index) = local_depth
                 /\ IsEmpty(rem.bucket)
       THEN [T |-> Merge(T1, key, value), ret |-> TRUE]
       ELSE [T |-> T1, ret |-> rem.ok]

\* ExtendibleHashTable::GetValue: the values appended to result, in order
HTGetValue(T, key) ==
    LET index == LowBits(Hash(key), GetGlobalDepth(T.dir))
        pairs == MyGetValue(T.buckets[GetBucketPageId(T.dir, index)], key)
    IN [i \in 1..Len(pairs) |-> pairs[i][2]]

HTTable == [dir |-> ht_dir, buckets |-> ht_buckets, status |-> ht_status]

\* the constructor: a zeroed directory page whose slot 0 names a fresh, zeroed bucket page
HashInit ==
    /\ hash_fn_ \in HashFunctions
    /\ ht_ops = 0
    /\ ht_dir = [global_depth_ |-> 0,
                 local_depths_ |-> [i \in DirSlots |-> 0],
                 bucket_page_ids_ |-> [i \in DirSlots |-> IF i = 0 THEN 1 ELSE 0]]
    /\ ht_buckets = [q \in {1} |-> ZeroBucket]
    /\ ht_status = "ok"
    /\ ht_ref = {}
    /\ ht_last = [op |-> "none", ret |-> FALSE, splits |-> 0, merges |-> 0, left |-> FALSE]

\* a call of Insert(key, value)
InsertCall(key, value) ==
    /\ ht_status = "ok"
    /\ ht_ops < MaxHashOps
    /\ ht_ops' = ht_ops + 1
    /\ UNCHANGED hash_fn_
    /\ ht_ref' = ht_ref \cup {<<key, value>>}
    /\ LET r == HTInsert(HTTable, key, value) IN
       /\ ht_dir' = r.T.dir
       /\ ht_buckets' = r.T.buckets
       /\ ht_status' = r.T.status
       /\ ht_last' = [op |-> "Insert", ret |-> r.ret,
                      splits |-> Cardinality((DOMAIN r.T.buckets) \ DOMAIN ht_buckets),
                      merges |-> 0, left |-> FALSE]

\* a call of Remove(key, value)
RemoveCall(key, value) ==
    /\ ht_status = "ok"
    /\ ht_ops < MaxHashOps
    /\ ht_ops' = ht_ops + 1
    /\ UNCHANGED hash_fn_
    /\ ht_ref' = ht_ref \ {<<key, value>>}
    /\ LET r == HTRemove(HTTable, key, value) IN
       /\ ht_dir' = r.T.dir
       /\ ht_buckets' = r.T.buckets
       /\ ht_status' = r.T.status
       /\ ht_last' = [op |-> "Remove", ret |-> r.ret,
                      splits |-> 0,
                      merges |-> Cardinality((DOMAIN ht_buckets) \ DOMAIN r.T.buckets),
                      left |-> (LowBits(Hash(key), GetGlobalDepth(ht_dir)) >= 2 * DirSize(r.T.dir))]

HashNext ==
    \/ \E key \in HashKeys, value \in HashValues : InsertCall(key, value)
    \/ \E key \in HashKeys, value \in HashValues : RemoveCall(key, value)

(***************************************************************************)
(* ExtendibleHashTable, second implementation (the second copy of          *)
(* extendible_hash_table.cpp in the file, lines 359-682): Insert splits    *)
(* inline, once, under table_latch_.WLock(); Remove merges inline;         *)
(* SplitInsert and Merge are empty.  GetValue is that of the first.        *)
(***************************************************************************)
RECURSIVE MoveToImage(_, _, _, _, _)
\* Insert 492-501: the readable pairs whose masked hash is image_index move to the new
\* bucket; the scan stops at the first slot never occupied
MoveToImage(bkt, new_bkt, i, local_depth, image_index) ==
    IF i >= BUCKET_ARRAY_SIZE \/ ~IsOccupied(bkt, i)
    THEN [bucket |-> bkt, image |-> new_bkt]
    ELSE IF LowBits(Hash(bkt.array_[i][1]), local_depth) = image_index /\ IsReadable(bkt, i)
         THEN MoveToImage(RemoveAt(bkt, i),
                          MyInsert(new_bkt, bkt.array_[i][1], bkt.array_[i][2]).bucket,
                          i + 1, local_depth, image_index)
         ELSE MoveToImage(bkt, new_bkt, i + 1, local_depth, image_index)

\* the slots the pair of loops "for (i = first; i >= diff; i -= diff) a[i - diff]" and
\* "for (i = first; i < n; i += diff) a[i]" writes
StrideBothWays(first, n, diff) ==
    {i \in DirSlots : (i - first) % diff = 0 /\ (i < first \/ i < n)}

\* Insert 483-544, the bucket is full: one split, then MyInsert into the bucket the
\* directory names for the key
SplitOnce(T, index, bucket_page_id, key, value) ==
    LET new_bucket_page_id == NewPageId(T.buckets)
        image_index == FlipBit(index, GetLocalDepth(T.dir, index))
        dir1 == IncrLocalDepth(T.dir, index)
        local_depth == GetLocalDepth(dir1, index)
        moved == MoveToImage(T.buckets[bucket_page_id], ZeroBucket, 0, local_depth, image_index)
        n == Pow2(GetGlobalDepth(dir1))
        diff == Pow2(local_depth)
    IN
    IF local_depth > GetGlobalDepth(dir1) /\ 2 * n > DIRECTORY_ARRAY_SIZE
    THEN [T |-> [T EXCEPT !.status = "overflow"], ret |-> FALSE]
    ELSE
    LET dir2 ==
            IF local_depth > GetGlobalDepth(dir1)
            THEN LET mirrored ==
                        [dir1 EXCEPT
                            !.bucket_page_ids_ = [i \in DirSlots |->
                                IF i >= n /\ i < 2 * n THEN dir1.bucket_page_ids_[i - n]
                                ELSE dir1.bucket_page_ids_[i]],
                            !.local_depths_ = [i \in DirSlots |->
                                IF i >= n /\ i < 2 * n THEN dir1.local_depths_[i - n]
                                ELSE dir1.local_depths_[i]]]
                 IN SetBucketPageId(SetLocalDepth(IncrGlobalDepth(mirrored), image_index, local_depth),
                                    image_index, new_bucket_page_id)
            ELSE [dir1 EXCEPT
                    !.local_depths_ = [i \in DirSlots |->
                        IF i \in (StrideBothWays(index, n, diff) \ {index})
                                    \cup StrideBothWays(image_index, n, diff)
                        THEN local_depth ELSE dir1.local_depths_[i]],
                    !.bucket_page_ids_ = [i \in DirSlots |->
                        IF i \in StrideBothWays(image_index, n, diff) THEN new_bucket_page_id
                        ELSE IF i \in StrideBothWays(index, n, diff) \ {index} THEN bucket_page_id
                        ELSE dir1.bucket_page_ids_[i]]]
        to_insert_page_id == GetBucketPageId(dir2, LowBits(Hash(key), GetGlobalDepth(dir2)))
        ins == IF to_insert_page_id = bucket_page_id
               THEN MyInsert(moved.bucket, key, value)
               ELSE MyInsert(moved.image, key, value)
        buckets2 == [q \in (DOMAIN T.buckets) \cup {new_bucket_page_id} |->
                        IF q = bucket_page_id
                        THEN (IF to_insert_page_id = bucket_page_id THEN ins.bucket ELSE moved.bucket)
                        ELSE IF q = new_bucket_page_id
                        THEN (IF to_insert_page_id = bucket_page_id THEN moved.image ELSE ins.bucket)
                        ELSE T.buckets[q]]
    IN [T |-> [T EXCEPT !.dir = dir2, !.buckets = buckets2], ret |-> ins.ok]

\* ExtendibleHashTable::Insert of the second implementation
HT2Insert(T, key, value) ==
    LET index == LowBits(Hash(key), GetGlobalDepth(T.dir))
        bucket_page_id == GetBucketPageId(T.dir, index)
        bkt == T.buckets[bucket_page_id]
    IN IF IsExist(bkt, key, value)
       THEN [T |-> T, ret |-> FALSE]
       ELSE IF IsFull(bkt)
       THEN SplitOnce(T, index, bucket_page_id, key, value)
       ELSE LET ins == MyInsert(bkt, key, value)
            IN [T |-> [T EXCEPT !.buckets[bucket_page_id] = ins.bucket], ret |-> ins.ok]

RECURSIVE MergeInline(_, _, _, _, _)
\* Remove 588-629 of the second implementation: the loop of Merge, its four directory
\* loops starting at index and image_index unmasked
MergeInline(T, index, bucket_page_id, local_depth, image_index) ==
    IF bucket_page_id \notin DOMAIN T.buckets
    THEN [T EXCEPT !.status = "fetch of a deleted page"]
    ELSE IF ~(/\ local_depth > 0
              /\ GetLocalDepth(T.dir, image_index) = local_depth
              /\ IsEmpty(T.buckets[bucket_page_id]))
    THEN T
    ELSE
    LET image_bucket_page_id == GetBucketPageId(T.dir, image_index)
        diff == Pow2(local_depth)
        n == Pow2(GetGlobalDepth(T.dir))
        ld == local_depth - 1
        dir1 == [T.dir EXCEPT
                    !.local_depths_ = [i \in DirSlots |->
                        IF i \in StrideBothWays(index, n, diff) \cup StrideBothWays(image_index, n, diff)
                        THEN ld ELSE T.dir.local_depths_[i]],
                    !.bucket_page_ids_ = [i \in DirSlots |->
                        IF i \in StrideBothWays(index, n, diff)
                        THEN image_bucket_page_id ELSE T.dir.bucket_page_ids_[i]]]
    IN MergeInline([T EXCEPT !.dir = CanShrink(dir1), !.buckets = DeletePage(T.buckets, bucket_page_id)],
                   index, image_bucket_page_id, ld, ImageIndex(index, ld))

\* ExtendibleHashTable::Remove of the second implementation
HT2Remove(T, key, value) ==
    LET index == LowBits(Hash(key), GetGlobalDepth(T.dir))
        bucket_page_id == GetBucketPageId(T.dir, index)
        rem == MyRemove(T.buckets[bucket_page_id], key, value)
        T1 == [T EXCEPT !.buckets[bucket_page_id] = rem.bucket]
        local_depth == GetLocalDepth(T.dir, index)
    IN IF rem.ok
       THEN [T |-> MergeInline(T1, index, bucket_page_id, local_depth, ImageIndex(index, local_depth)),
             ret |-> TRUE]
       ELSE [T |-> T1, ret |-> FALSE]

HT2Table == [dir |-> h2_dir, buckets |-> h2_buckets, status |-> h2_status]

\* the constructor of the second implementation (376-390), the same as the first's
HashTwinInit ==
    /\ h2_dir = [global_depth_ |-> 0,
                 local_depths_ |-> [i \in DirSlots |-> 0],
                 bucket_page_ids_ |-> [i \in DirSlots |-> IF i = 0 THEN 1 ELSE 0]]
    /\ h2_buckets = [q \in {1} |-> ZeroBucket]
    /\ h2_status = "ok"
    /\ h2_last = [op |-> "none", first |-> FALSE, second |-> FALSE, splits |-> 0]

\* Insert(key, value) called on a table of the first and on one of the second
\* implementation that have seen the same calls so far
TwinInsertCall(key, value) ==
    /\ ht_ops < MaxTwinOps
    /\ h2_status = "ok"
    /\ InsertCall(key, value)
    /\ LET r == HT2Insert(HT2Table, key, value) IN
       /\ h2_dir' = r.T.dir
       /\ h2_buckets' = r.T.buckets
       /\ h2_status' = r.T.status
       /\ h2_last' = [op |-> "Insert", first |-> ht_last'.ret, second |-> r.ret,
                      splits |-> ht_last'.splits]

\* Remove(key, value) called on both
TwinRemoveCall(key, value) ==
    /\ ht_ops < MaxTwinOps
    /\ h2_status = "ok"
    /\ RemoveCall(key, value)
    /\ LET r == HT2Remove(HT2Table, key, value) IN
       /\ h2_dir' = r.T.dir
       /\ h2_buckets' = r.T.buckets
       /\ h2_status' = r.T.status
       /\ h2_last' = [op |-> "Remove", first |-> ht_last'.ret, second |-> r.ret, splits |-> 0]

HashTwinNext ==
    \/ \E key \in HashKeys, value \in HashValues : TwinInsertCall(key, value)
    \/ \E key \in HashKeys, value \in HashValues : TwinRemoveCall(key, value)

(***************************************************************************)
(* B+ tree node pages (b_plus_tree_page, b_plus_tree_leaf_page,            *)
(* b_plus_tree_internal_page).  A page is a record: leaf (page_type_),     *)
(* parent (parent_page_id_), next (next_page_id_, leaves only), max        *)
(* (max_size_), keys and vals (array_; vals are values in a leaf, child    *)
(* page ids in an internal page).  Slots are numbered from 0 as in the     *)
(* code, so slot i is element i + 1 of the sequences.                      *)
(***************************************************************************)
INVALID_PAGE_ID == -1
TreeKeys == 1..NumTreeKeys
TreeValues == 1..NumTreeValues
\* the key of a slot that was never written: NewPage hands out a zeroed page
ZeroKey == 0

SeqInsertAt(s, i, x) == SubSeq(s, 1, i) \o <<x>> \o SubSeq(s, i + 1, Len(s))
SeqRemoveAt(s, i) == SubSeq(s, 1, i) \o SubSeq(s, i + 2, Len(s))
SeqMax(S) == CHOOSE x \in S : \A y \in S : y <= x

\* BPlusTreeLeafPage::Init / BPlusTreeInternalPage::Init
LeafPageInit(parent_id, max_size) ==
    [leaf |-> TRUE, parent |-> parent_id, next |-> INVALID_PAGE_ID, max |-> max_size,
     keys |-> <<>>, vals |-> <<>>]
InternalPageInit(parent_id, max_size) ==
    [leaf |-> FALSE, parent |-> parent_id, next |-> INVALID_PAGE_ID, max |-> max_size,
     keys |-> <<>>, vals |-> <<>>]

GetSize(node) == Len(node.keys)
GetMaxSize(node) == node.max
IsRootPage(node) == node.parent = INVALID_PAGE_ID
KeyAt(node, i) == node.keys[i + 1]
ValueAt(node, i) == node.vals[i + 1]
SetKeyAt(node, i, key) == [node EXCEPT !.keys[i + 1] = key]

\* BPlusTreePage::GetMinSize: half of max_size_, rounded up
GetMinSize(node) == (node.max + 1) \div 2

\* ---- leaf page ----
\* KeyIndex: position of the first key >= key
LeafKeyIndex(node, key) == Cardinality({i \in 1..GetSize(node) : node.keys[i] < key})
LeafHasKey(node, key) == \E i \in 1..GetSize(node) : node.keys[i] = key
\* Lookup(key, &value)
LeafLookup(node, key) ==
    IF LeafHasKey(node, key)
    THEN [found |-> TRUE, value |-> ValueAt(node, LeafKeyIndex(node, key))]
    ELSE [found |-> FALSE, value |-> 0]
\* Insert: keeps the order, leaves the page alone on a duplicate; the caller reads GetSize
LeafInsert(node, key, value) ==
    IF LeafHasKey(node, key) THEN node
    ELSE [node EXCEPT !.keys = SeqInsertAt(@, LeafKeyIndex(node, key), key),
                      !.vals = SeqInsertAt(@, LeafKeyIndex(node, key), value)]
\* RemoveAndDeleteRecord
LeafRemoveAndDeleteRecord(node, key) ==
    IF ~LeafHasKey(node, key) THEN node
    ELSE [node EXCEPT !.keys = SeqRemoveAt(@, LeafKeyIndex(node, key)),
                      !.vals = SeqRemoveAt(@, LeafKeyIndex(node, key))]
\* the number of entries MoveHalfTo leaves behind: the upper half moves, the middle
\* entry of an odd number stays
KeptBySplit(node) == (GetSize(node) + 1) \div 2
\* MoveHalfTo(recipient) on a leaf: <<this page, recipient>> afterwards
LeafMoveHalfTo(node, recipient) ==
    LET keep == KeptBySplit(node) IN
    <<[node EXCEPT !.keys = SubSeq(@, 1, keep), !.vals = SubSeq(@, 1, keep)],
      [recipient EXCEPT !.keys = @ \o SubSeq(node.keys, keep + 1, GetSize(node)),
                        !.vals = @ \o SubSeq(node.vals, keep + 1, GetSize(node))]>>
\* MoveAllTo(recipient) on a leaf
LeafMoveAllTo(node, recipient) ==
    <<[node EXCEPT !.keys = <<>>, !.vals = <<>>],
      [recipient EXCEPT !.keys = @ \o node.keys, !.vals = @ \o node.vals]>>
\* MoveFirstToEndOf(recipient) on a leaf
LeafMoveFirstToEndOf(node, recipient) ==
    <<[node EXCEPT !.keys = Tail(@), !.vals = Tail(@)],
      [recipient EXCEPT !.keys = Append(@, Head(node.keys)), !.vals = Append(@, Head(node.vals))]>>
\* MoveLastToFrontOf(recipient) on a leaf
LeafMoveLastToFrontOf(node, recipient) ==
    LET n == GetSize(node) IN
    <<[node EXCEPT !.keys = SubSeq(@, 1, n - 1), !.vals = SubSeq(@, 1, n - 1)],
      [recipient EXCEPT !.keys = <<node.keys[n]>> \o @, !.vals = <<node.vals[n]>> \o @]>>

\* ---- internal page ----
\* the slot Lookup follows: the last slot i >= 1 whose key is <= key, else slot 0
InternalKeyIndex(node, key) ==
    LET S == {i \in 1..(GetSize(node) - 1) : KeyAt(node, i) <= key}
    IN IF S = {} THEN 0 ELSE SeqMax(S)
\* Lookup(key)
InternalLookup(node, key) == ValueAt(node, InternalKeyIndex(node, key))
\* ValueIndex(child)
ValueIndex(node, child) == CHOOSE i \in 0..(GetSize(node) - 1) : ValueAt(node, i) = child
\* PopulateNewRoot(left, key, right)
PopulateNewRoot(node, left_id, key, right_id) ==
    [node EXCEPT !.keys = <<ZeroKey, key>>, !.vals = <<left_id, right_id>>]
\* InsertNodeAfter(old_id, key, new_id)
InsertNodeAfter(node, old_id, key, new_id) ==
    LET i == ValueIndex(node, old_id) + 1 IN
    [node EXCEPT !.keys = SeqInsertAt(@, i, key), !.vals = SeqInsertAt(@, i, new_id)]
\* Remove(index)
InternalRemove(node, index) ==
    [node EXCEPT !.keys = SeqRemoveAt(@, index), !.vals = SeqRemoveAt(@, index)]
\* the children named in a sequence of page ids get parent_id as their parent
Reparent(pages, children, parent_id) ==
    [q \in DOMAIN pages |->
        IF \E i \in 1..Len(children) : children[i] = q
        THEN [pages[q] EXCEPT !.parent = parent_id] ELSE pages[q]]

\* MoveHalfTo(recipient, bpm) on an internal page: the upper half moves, the moved
\* children are reparented
InternalMoveHalfTo(pages, node_id, recipient_id) ==
    LET node == pages[node_id]
        keep == KeptBySplit(node)
        moved_keys == SubSeq(node.keys, keep + 1, GetSize(node))
        moved_vals == SubSeq(node.vals, keep + 1, GetSize(node))
        moved == [pages EXCEPT ![node_id].keys = SubSeq(@, 1, keep),
                               ![node_id].vals = SubSeq(@, 1, keep),
                               ![recipient_id].keys = @ \o moved_keys,
                               ![recipient_id].vals = @ \o moved_vals]
    IN Reparent(moved, moved_vals, recipient_id)
\* MoveAllTo(recipient, middle_key, bpm) on an internal page
InternalMoveAllTo(pages, node_id, recipient_id, middle_key) ==
    LET node == SetKeyAt(pages[node_id], 0, middle_key)
        moved == [pages EXCEPT ![node_id].keys = <<>>,
                               ![node_id].vals = <<>>,
                               ![recipient_id].keys = @ \o node.keys,
                               ![recipient_id].vals = @ \o node.vals]
    IN Reparent(moved, node.vals, recipient_id)
\* MoveFirstToEndOf(recipient, middle_key, bpm) on an internal page
InternalMoveFirstToEndOf(pages, node_id, recipient_id, middle_key) ==
    LET node == pages[node_id]
        moved == [pages EXCEPT ![node_id].keys = Tail(@),
                               ![node_id].vals = Tail(@),
                               ![recipient_id].keys = Append(@, middle_key),
                               ![recipient_id].vals = Append(@, ValueAt(node, 0))]
    IN Reparent(moved, <<ValueAt(node, 0)>>, recipient_id)
\* MoveLastToFrontOf(recipient, middle_key, bpm) on an internal page
InternalMoveLastToFrontOf(pages, node_id, recipient_id, middle_key) ==
    LET node == pages[node_id]
        n == GetSize(node)
        recipient == SetKeyAt(pages[recipient_id], 0, middle_key)
        moved == [pages EXCEPT ![node_id].keys = SubSeq(@, 1, n - 1),
                               ![node_id].vals = SubSeq(@, 1, n - 1),
                               ![recipient_id].keys = <<node.keys[n]>> \o recipient.keys,
                               ![recipient_id].vals = <<node.vals[n]>> \o recipient.vals]
    IN Reparent(moved, <<node.vals[n]>>, recipient_id)

(***************************************************************************)
(* BPlusTree (b_plus_tree.cpp).  A tree value T is a record: root          *)
(* (root_page_id_), pages (the pages the buffer pool holds for the tree),  *)
(* deleted (the transaction's deleted page set).                           *)
(***************************************************************************)
PutPage(pages, page_id, node) ==
    [q \in (DOMAIN pages) \cup {page_id} |-> IF q = page_id THEN node ELSE pages[q]]

RECURSIVE FindLeaf(_, _, _, _)
\* the descent of FindLeafPage(key, option), InsertIntoLeaf and Remove: the page id
\* of the leaf reached from page_id
FindLeaf(pages, page_id, key, option) ==
    LET node == pages[page_id] IN
    IF node.leaf THEN page_id
    ELSE FindLeaf(pages,
                  CASE option = 0 -> InternalLookup(node, key)
                    [] option = 1 -> ValueAt(node, 0)
                    [] option = 2 -> ValueAt(node, GetSize(node) - 1),
                  key, option)

\* IsEmpty
BTIsEmpty(T) == T.root = INVALID_PAGE_ID

\* GetValue
BTGetValue(T, key) ==
    IF BTIsEmpty(T) THEN [found |-> FALSE, value |-> 0]
    ELSE LeafLookup(T.pages[FindLeaf(T.pages, T.root, key, 0)], key)

\* HeaderPage: a sequence of records [name, root_id]; a name has at most one record
index_name_ == "index"
HEADER_PAGE_ID == 0
HasRecord(header, name) == \E i \in 1..Len(header) : header[i].name = name
\* HeaderPage::InsertRecord: a name that already has a record is refused
InsertRecord(header, name, root_id) ==
    IF HasRecord(header, name) THEN header
    ELSE Append(header, [name |-> name, root_id |-> root_id])
\* HeaderPage::UpdateRecord: a name without a record is refused
UpdateRecord(header, name, root_id) ==
    [i \in 1..Len(header) |-> IF header[i].name = name
                              THEN [header[i] EXCEPT !.root_id = root_id]
                              ELSE header[i]]
\* HeaderPage::GetRootId
GetRootId(header, name) ==
    header[CHOOSE i \in 1..Len(header) : header[i].name = name].root_id

\* Page::GetPinCount of the pages of the tree's buffer pool (0 when not recorded)
PinCount(T, page_id) == IF page_id \in DOMAIN T.pins THEN T.pins[page_id] ELSE 0
\* BufferPoolManager::FetchPage / NewPage leave the page pinned once more
PinPage(T, page_id) ==
    [T EXCEPT !.pins = [q \in (DOMAIN @) \cup {page_id} |->
                            IF q = page_id THEN PinCount(T, q) + 1 ELSE @[q]]]
\* BufferPoolManager::UnpinPage: refused (returns false) when the pin count is zero
UnpinPage(T, page_id) ==
    IF PinCount(T, page_id) = 0 THEN [T EXCEPT !.zero_unpin = TRUE]
    ELSE [T EXCEPT !.pins = [q \in (DOMAIN @) \ (IF @[page_id] = 1 THEN {page_id} ELSE {}) |->
                                 IF q = page_id THEN @[q] - 1 ELSE @[q]]]
\* BufferPoolManager::NewPage: the id of the page handed out; ids of deleted pages
\* are not handed out again while the tree lives
TreeNewPageId(T) ==
    CHOOSE pid \in 1..(Cardinality((DOMAIN T.pages) \cup T.retired) + 1) :
        pid \notin (DOMAIN T.pages) \cup T.retired
\* a buffer pool whose NewPage never returns nullptr (budget counts the calls of
\* NewPage that still succeed)
Unlimited == -1
\* NewPage returned nullptr: throw std::runtime_error("out of memory")
OutOfMemory(T) == [T EXCEPT !.oom = TRUE]

\* UpdateRootPageId(insert_record)
UpdateRootPageId(T, insert_record) ==
    LET fetched == PinPage(T, HEADER_PAGE_ID)
    IN UnpinPage([fetched EXCEPT !.header = IF insert_record # 0
                                            THEN InsertRecord(@, index_name_, T.root)
                                            ELSE UpdateRecord(@, index_name_, T.root)],
                 HEADER_PAGE_ID)

\* StartNewTree
StartNewTree(T, key, value) ==
    IF T.budget = 0 THEN OutOfMemory(T)
    ELSE LET page_id == TreeNewPageId(T)
             root_node == LeafInsert(LeafPageInit(INVALID_PAGE_ID, T.leaf_max_size_), key, value)
             T1 == PinPage([T EXCEPT !.budget = IF @ = Unlimited THEN @ ELSE @ - 1,
                                     !.pages = PutPage(T.pages, page_id, root_node),
                                     !.root = page_id], page_id)
         IN UnpinPage(UpdateRootPageId(T1, 1), page_id)

\* a slip in StartNewRoot: the left node keeps the parent it had
StartNewRootKeepsParent(T, left_id, key, right_id) ==
    IF T.budget = 0 THEN OutOfMemory(T)
    ELSE LET page_id == TreeNewPageId(T)
             reparented == [T.pages EXCEPT ![right_id].parent = page_id]
             root_node == PopulateNewRoot(InternalPageInit(INVALID_PAGE_ID, T.internal_max_size_),
                                          left_id, key, right_id)
             T1 == PinPage([T EXCEPT !.budget = IF @ = Unlimited THEN @ ELSE @ - 1,
                                     !.pages = PutPage(reparented, page_id, root_node),
                                     !.root = page_id], page_id)
         IN UnpinPage(UpdateRootPageId(T1, 0), page_id)

\* StartNewRoot
StartNewRoot(T, left_id, key, right_id) ==
    IF T.budget = 0 THEN OutOfMemory(T)
    ELSE LET page_id == TreeNewPageId(T)
             reparented == [T.pages EXCEPT ![left_id].parent = page_id, ![right_id].parent = page_id]
             root_node == PopulateNewRoot(InternalPageInit(INVALID_PAGE_ID, T.internal_max_size_),
                                          left_id, key, right_id)
             T1 == PinPage([T EXCEPT !.budget = IF @ = Unlimited THEN @ ELSE @ - 1,
                                     !.pages = PutPage(reparented, page_id, root_node),
                                     !.root = page_id], page_id)
         IN UnpinPage(UpdateRootPageId(T1, 0), page_id)

\* SplitLeafNode: <<tree afterwards, page id of the new right leaf (left pinned)>>
SplitLeafNode(T, left_id) ==
    IF T.budget = 0 THEN <<OutOfMemory(T), INVALID_PAGE_ID>>
    ELSE LET page_id == TreeNewPageId(T)
             left_node == T.pages[left_id]
             halves == LeafMoveHalfTo(left_node,
                                      LeafPageInit(left_node.parent, GetMaxSize(left_node)))
             pages == PutPage([T.pages EXCEPT ![left_id] = [halves[1] EXCEPT !.next = page_id]],
                              page_id, [halves[2] EXCEPT !.next = left_node.next])
         IN <<PinPage([T EXCEPT !.budget = IF @ = Unlimited THEN @ ELSE @ - 1, !.pages = pages], page_id), page_id>>

\* SplitInternalNode: <<tree afterwards, page id of the new right page (left pinned)>>
SplitInternalNode(T, left_id) ==
    IF T.budget = 0 THEN <<OutOfMemory(T), INVALID_PAGE_ID>>
    ELSE LET page_id == TreeNewPageId(T)
             left_node == T.pages[left_id]
             with_right == PutPage(T.pages, page_id,
                                   InternalPageInit(left_node.parent, GetMaxSize(left_node)))
         IN <<PinPage([T EXCEPT !.budget = IF @ = Unlimited THEN @ ELSE @ - 1,
                                !.pages = InternalMoveHalfTo(with_right, left_id, page_id)], page_id),
              page_id>>

RECURSIVE InsertIntoParent(_, _, _, _)
\* InsertIntoParent; an exception thrown below it leaves its pages pinned
InsertIntoParent(T, old_id, key, new_id) ==
    LET parent_id == T.pages[old_id].parent
        T0 == PinPage([T EXCEPT !.pages[parent_id] = InsertNodeAfter(@, old_id, key, new_id)],
                      parent_id)
    IN IF GetSize(T0.pages[parent_id]) = GetMaxSize(T0.pages[parent_id])
       THEN LET split == SplitInternalNode(T0, parent_id)
                right_id == split[2]
                T1 == split[1]
            IN IF T1.oom THEN T1
               ELSE LET T2 == IF IsRootPage(T1.pages[parent_id])
                              THEN StartNewRoot(T1, parent_id, KeyAt(T1.pages[right_id], 0), right_id)
                              ELSE InsertIntoParent(T1, parent_id, KeyAt(T1.pages[right_id], 0), right_id)
                    IN IF T2.oom THEN T2
                       ELSE UnpinPage(UnpinPage(T2, right_id), parent_id)
       ELSE UnpinPage(T0, parent_id)

\* InsertIntoLeaf from line 177 on, with the leaf reached: [tree, ret].  The
\* releases of lines 181-193 and 211-223 are left to the caller.
InsertAtLeaf(T, leaf_id, key, value) ==
    LET size == GetSize(T.pages[leaf_id])
        leaf_node == LeafInsert(T.pages[leaf_id], key, value)
        T1 == [T EXCEPT !.pages[leaf_id] = leaf_node]
    IN IF GetSize(leaf_node) = size
       THEN [tree |-> T, ret |-> FALSE]
       ELSE IF GetSize(leaf_node) = GetMaxSize(leaf_node)
            THEN LET split == SplitLeafNode(T1, leaf_id)
                     right_id == split[2]
                     T2 == split[1]
                 IN IF T2.oom THEN [tree |-> T2, ret |-> TRUE]
                    ELSE LET T3 == IF IsRootPage(T2.pages[leaf_id])
                                   THEN StartNewRoot(T2, leaf_id, KeyAt(T2.pages[right_id], 0), right_id)
                                   ELSE InsertIntoParent(T2, leaf_id, KeyAt(T2.pages[right_id], 0), right_id)
                         IN [tree |-> IF T3.oom THEN T3 ELSE UnpinPage(T3, right_id),
                             ret |-> TRUE]
            ELSE [tree |-> T1, ret |-> TRUE]

\* InsertIntoLeaf: [tree, ret]
InsertIntoLeaf(T, key, value) ==
    InsertAtLeaf(T, FindLeaf(T.pages, T.root, key, 0), key, value)

\* a slip in Insert: a tree that is not empty is started anew
BTInsertStartsAnew(T, key, value) ==
    [tree |-> StartNewTree(T, key, value), ret |-> TRUE]

\* Insert: [tree, ret]
BTInsert(T, key, value) ==
    IF BTIsEmpty(T)
    THEN [tree |-> StartNewTree(T, key, value), ret |-> TRUE]
    ELSE InsertIntoLeaf(T, key, value)

\* AdjustLeafNode / AdjustInternalNode, lines 435-436, 453-454, 497-498, 515-516: the
\* sibling that is fetched and write-latched for a node that is not the root
NeighbourOf(T, node_id, key) ==
    LET parent_node == T.pages[T.pages[node_id].parent]
        index == InternalKeyIndex(parent_node, key)
    IN IF index - 1 >= 0 THEN ValueAt(parent_node, index - 1)
       ELSE IF index + 1 < GetSize(parent_node) THEN ValueAt(parent_node, index + 1)
       ELSE INVALID_PAGE_ID

\* AdjustInternalNode, lines 496-535, for a page that is not the root: the parent is
\* fetched and stays pinned, one sibling is borrowed from or merged with
AdjustInternalLevel(T, node_id, key) ==
    LET internal_node == T.pages[node_id]
        parent_id == internal_node.parent
        parent_node == T.pages[parent_id]
        index == InternalKeyIndex(parent_node, key)
        T0 == PinPage(T, parent_id)
    IN IF index - 1 >= 0
       THEN LET left_id == ValueAt(parent_node, index - 1)
                left_neigh_node == T.pages[left_id]
                T1 == PinPage(T0, left_id)
            IN UnpinPage(
                 IF GetSize(left_neigh_node) > GetMinSize(left_neigh_node)
                 THEN LET moved == InternalMoveLastToFrontOf(T.pages, left_id, node_id,
                                                             KeyAt(parent_node, index))
                      IN [T1 EXCEPT !.pages = [moved EXCEPT ![parent_id] =
                               SetKeyAt(@, index, KeyAt(moved[node_id], 0))]]
                 ELSE LET moved == InternalMoveAllTo(T.pages, node_id, left_id,
                                                     KeyAt(parent_node, index))
                      IN [T1 EXCEPT !.pages = [moved EXCEPT ![parent_id] =
                                                   InternalRemove(@, index)],
                                    !.deleted = @ \cup {node_id}],
                 left_id)
       ELSE IF index + 1 < GetSize(parent_node)
       THEN LET right_id == ValueAt(parent_node, index + 1)
                right_neigh_node == T.pages[right_id]
                T1 == PinPage(T0, right_id)
            IN UnpinPage(
                 IF GetSize(right_neigh_node) > GetMinSize(right_neigh_node)
                 THEN LET moved == InternalMoveFirstToEndOf(T.pages, right_id, node_id,
                                                            KeyAt(parent_node, index + 1))
                      IN [T1 EXCEPT !.pages = [moved EXCEPT ![parent_id] =
                               SetKeyAt(@, index + 1, KeyAt(moved[right_id], 0))]]
                 ELSE LET moved == InternalMoveAllTo(T.pages, right_id, node_id,
                                                     KeyAt(parent_node, index + 1))
                      IN [T1 EXCEPT !.pages = [moved EXCEPT ![parent_id] =
                                                   InternalRemove(@, index + 1)],
                                    !.deleted = @ \cup {right_id}],
                 right_id)
       ELSE T0

RECURSIVE AdjustInternalNode(_, _, _)
\* AdjustInternalNode
AdjustInternalNode(T, node_id, key) ==
    LET internal_node == T.pages[node_id] IN
    IF IsRootPage(internal_node)
    THEN IF GetSize(internal_node) = 1
         THEN LET child_page_id == ValueAt(internal_node, 0)
                  fetched == PinPage(T, child_page_id)
                  T1 == UnpinPage(
                            [fetched EXCEPT !.pages = [@ EXCEPT ![node_id].keys = <<>>,
                                                                ![node_id].vals = <<>>,
                                                                ![child_page_id].parent = INVALID_PAGE_ID]],
                            child_page_id)
              IN [UpdateRootPageId([T1 EXCEPT !.root = child_page_id], 0)
                      EXCEPT !.deleted = @ \cup {node_id}]
         ELSE T
    ELSE
    LET parent_id == internal_node.parent
        T1 == AdjustInternalLevel(T, node_id, key)
    IN UnpinPage(IF GetSize(T1.pages[parent_id]) < GetMinSize(T1.pages[parent_id])
                 THEN AdjustInternalNode(T1, parent_id, key)
                 ELSE T1,
                 parent_id)

\* a slip in AdjustLeafNode: borrowing from a sibling leaves the parent's key as it was
AdjustLeafLevelKeepsKey(T, leaf_id, key) ==
    LET leaf_node == T.pages[leaf_id]
        parent_id == leaf_node.parent
        parent_node == T.pages[parent_id]
        index == InternalKeyIndex(parent_node, key)
        T0 == PinPage(T, parent_id)
    IN IF index - 1 >= 0
       THEN LET left_id == ValueAt(parent_node, index - 1)
                left_neigh_node == T.pages[left_id]
                T1 == PinPage(T0, left_id)
            IN UnpinPage(
                 IF GetSize(left_neigh_node) > GetMinSize(left_neigh_node)
                 THEN LET moved == LeafMoveLastToFrontOf(left_neigh_node, leaf_node)
                      IN [T1 EXCEPT !.pages = [@ EXCEPT
                               ![left_id] = moved[1],
                               ![leaf_id] = moved[2]]]
                 ELSE LET moved == LeafMoveAllTo(leaf_node, left_neigh_node)
                      IN [T1 EXCEPT !.pages = [@ EXCEPT
                               ![leaf_id] = moved[1],
                               ![left_id] = [moved[2] EXCEPT !.next = leaf_node.next],
                               ![parent_id] = InternalRemove(@, index)],
                                    !.deleted = @ \cup {leaf_id}],
                 left_id)
       ELSE IF index + 1 < GetSize(parent_node)
       THEN LET right_id == ValueAt(parent_node, index + 1)
                right_neigh_node == T.pages[right_id]
                T1 == PinPage(T0, right_id)
            IN UnpinPage(
                 IF GetSize(right_neigh_node) > GetMinSize(right_neigh_node)
                 THEN LET moved == LeafMoveFirstToEndOf(right_neigh_node, leaf_node)
                      IN [T1 EXCEPT !.pages = [@ EXCEPT
                               ![right_id] = moved[1],
                               ![leaf_id] = moved[2]]]
                 ELSE LET moved == LeafMoveAllTo(right_neigh_node, leaf_node)
                      IN [T1 EXCEPT !.pages = [@ EXCEPT
                               ![right_id] = moved[1],
                               ![leaf_id] = [moved[2] EXCEPT !.next = right_neigh_node.next],
                               ![parent_id] = InternalRemove(@, index + 1)],
                                    !.deleted = @ \cup {right_id}],
                 right_id)
       ELSE T0

\* AdjustLeafNode, lines 431-470, for a leaf that is not the root: the parent is fetched
\* and stays pinned, one sibling is borrowed from or merged with
AdjustLeafLevel(T, leaf_id, key) ==
    LET leaf_node == T.pages[leaf_id]
        parent_id == leaf_node.parent
        parent_node == T.pages[parent_id]
        index == InternalKeyIndex(parent_node, key)
        T0 == PinPage(T, parent_id)
    IN IF index - 1 >= 0
       THEN LET left_id == ValueAt(parent_node, index - 1)
                left_neigh_node == T.pages[left_id]
                T1 == PinPage(T0, left_id)
            IN UnpinPage(
                 IF GetSize(left_neigh_node) > GetMinSize(left_neigh_node)
                 THEN LET moved == LeafMoveLastToFrontOf(left_neigh_node, leaf_node)
                      IN [T1 EXCEPT !.pages = [@ EXCEPT
                               ![left_id] = moved[1],
                               ![leaf_id] = moved[2],
                               ![parent_id] = SetKeyAt(@, index, KeyAt(moved[2], 0))]]
                 ELSE LET moved == LeafMoveAllTo(leaf_node, left_neigh_node)
                      IN [T1 EXCEPT !.pages = [@ EXCEPT
                               ![leaf_id] = moved[1],
                               ![left_id] = [moved[2] EXCEPT !.next = leaf_node.next],
                               ![parent_id] = InternalRemove(@, index)],
                                    !.deleted = @ \cup {leaf_id}],
                 left_id)
       ELSE IF index + 1 < GetSize(parent_node)
       THEN LET right_id == ValueAt(parent_node, index + 1)
                right_neigh_node == T.pages[right_id]
                T1 == PinPage(T0, right_id)
            IN UnpinPage(
                 IF GetSize(right_neigh_node) > GetMinSize(right_neigh_node)
                 THEN LET moved == LeafMoveFirstToEndOf(right_neigh_node, leaf_node)
                      IN [T1 EXCEPT !.pages = [@ EXCEPT
                               ![right_id] = moved[1],
                               ![leaf_id] = moved[2],
                               ![parent_id] = SetKeyAt(@, index + 1, KeyAt(moved[1], 0))]]
                 ELSE LET moved == LeafMoveAllTo(right_neigh_node, leaf_node)
                      IN [T1 EXCEPT !.pages = [@ EXCEPT
                               ![right_id] = moved[1],
                               ![leaf_id] = [moved[2] EXCEPT !.next = right_neigh_node.next],
                               ![parent_id] = InternalRemove(@, index + 1)],
                                    !.deleted = @ \cup {right_id}],
                 right_id)
       ELSE T0

\* AdjustLeafNode
AdjustLeafNode(T, leaf_id, key) ==
    LET leaf_node == T.pages[leaf_id] IN
    IF IsRootPage(leaf_node)
    THEN IF GetSize(leaf_node) = 0
         THEN [UpdateRootPageId([T EXCEPT !.root = INVALID_PAGE_ID], 0)
                   EXCEPT !.deleted = @ \cup {leaf_id}]
         ELSE T
    ELSE
    LET parent_id == leaf_node.parent
        T1 == AdjustLeafLevel(T, leaf_id, key)
    IN UnpinPage(IF GetSize(T1.pages[parent_id]) < GetMinSize(T1.pages[parent_id])
                 THEN AdjustInternalNode(T1, parent_id, key)
                 ELSE T1,
                 parent_id)

\* Remove, lines 398-402: DeletePage on every page of the deleted page set; a page
\* that is still pinned is not deleted (DeletePage returns false, unchecked)
DrainDeletedPageSet(T) ==
    LET gone == {q \in T.deleted : PinCount(T, q) = 0}
    IN [T EXCEPT !.pages = [q \in (DOMAIN T.pages) \ gone |-> T.pages[q]],
                 !.retired = @ \cup gone,
                 !.deleted = {}]

\* a slip in Remove: no early return when the leaf did not hold the key
BTRemoveAlwaysAdjusts(T, key) ==
    IF BTIsEmpty(T) THEN T
    ELSE LET leaf_id == FindLeaf(T.pages, T.root, key, 0)
             leaf_node == LeafRemoveAndDeleteRecord(T.pages[leaf_id], key)
             T1 == [T EXCEPT !.pages[leaf_id] = leaf_node]
         IN DrainDeletedPageSet(IF GetSize(leaf_node) < GetMinSize(leaf_node)
                                THEN AdjustLeafNode(T1, leaf_id, key)
                                ELSE T1)

\* Remove (returns void)
BTRemove(T, key) ==
    IF BTIsEmpty(T) THEN T
    ELSE LET leaf_id == FindLeaf(T.pages, T.root, key, 0)
             size == GetSize(T.pages[leaf_id])
             leaf_node == LeafRemoveAndDeleteRecord(T.pages[leaf_id], key)
             T1 == [T EXCEPT !.pages[leaf_id] = leaf_node]
         IN IF GetSize(leaf_node) = size
            THEN T
            ELSE DrainDeletedPageSet(IF GetSize(leaf_node) < GetMinSize(leaf_node)
                                     THEN AdjustLeafNode(T1, leaf_id, key)
                                     ELSE T1)

(***************************************************************************)
(* IndexIterator (index_iterator.cpp) and BPlusTree::Begin                 *)
(***************************************************************************)
RECURSIVE IterateFrom(_, _, _, _)
\* the loop  for (it = Begin(); !it.IsEnd(); ++it) out.push_back((*it).first)  from the
\* position (page_id, index): the keys read and how the loop ended
IterateFrom(pages, page_id, index, out) ==
    LET node_ == pages[page_id] IN
    IF node_.next = INVALID_PAGE_ID /\ index >= GetSize(node_)
    THEN [keys |-> out, end |-> "IsEnd"]
    ELSE IF index >= GetSize(node_)
    THEN [keys |-> out, end |-> "read of a slot at or past the size"]
    ELSE IF index + 1 = GetSize(node_) /\ node_.next # INVALID_PAGE_ID
    THEN IF node_.next \in DOMAIN pages
         THEN IterateFrom(pages, node_.next, 0, Append(out, KeyAt(node_, index)))
         ELSE [keys |-> Append(out, KeyAt(node_, index)), end |-> "fetch of a deleted page"]
    ELSE IterateFrom(pages, page_id, index + 1, Append(out, KeyAt(node_, index)))

\* what FetchPage(INVALID_PAGE_ID) can give FindLeafPage: no page at all, or a frame
\* filled from a page that was never written
FetchOfInvalidPage == {"null page", "page never written"}

(***************************************************************************)
(* The tree as a state machine                                             *)
(***************************************************************************)
BTTree ==
    [root |-> root_page_id_, pages |-> bt_pages, deleted |-> {}, header |-> bt_header,
     leaf_max_size_ |-> LEAF_MAX_SIZE, internal_max_size_ |-> INTERNAL_MAX_SIZE,
     pins |-> <<>>, budget |-> Unlimited, oom |-> FALSE, zero_unpin |-> FALSE, retired |-> {}]
NoScan == [keys |-> <<>>, end |-> "none"]
StoredKeys(ref) == {pair[1] : pair \in ref}

TreeInit ==
    /\ root_page_id_ = INVALID_PAGE_ID
    /\ bt_pages = <<>>
    /\ bt_header = <<>>
    /\ bt_ops = 0
    /\ bt_ref = {}
    /\ bt_last = [op |-> "none", key |-> 0, value |-> 0, stored |-> FALSE, again |-> FALSE,
                  ret |-> "none"]
    /\ bt_scan = NoScan

\* a call of Insert(key, value)
TreeInsertCall(key, value) ==
    /\ bt_ops < MaxTreeOps
    /\ LET result == BTInsert(BTTree, key, value) IN
       /\ root_page_id_' = result.tree.root
       /\ bt_pages' = result.tree.pages
       /\ bt_header' = result.tree.header
       /\ bt_last' = [op |-> "Insert", key |-> key, value |-> value,
                      stored |-> key \in StoredKeys(bt_ref),
                      again |-> (bt_last.op = "Insert" /\ bt_last.key = key),
                      ret |-> IF result.ret THEN "true" ELSE "false"]
    /\ bt_ref' = IF key \in StoredKeys(bt_ref) THEN bt_ref ELSE bt_ref \cup {<<key, value>>}
    /\ bt_ops' = bt_ops + 1
    /\ bt_scan' = NoScan

\* a call of Remove(key)
TreeRemoveCall(key) ==
    /\ bt_ops < MaxTreeOps
    /\ LET result == BTRemove(BTTree, key) IN
       /\ root_page_id_' = result.root
       /\ bt_pages' = result.pages
       /\ bt_header' = result.header
    /\ bt_last' = [op |-> "Remove", key |-> key, value |-> 0,
                   stored |-> key \in StoredKeys(bt_ref),
                   again |-> (bt_last.op = "Remove" /\ bt_last.key = key), ret |-> "void"]
    /\ bt_ref' = {pair \in bt_ref : pair[1] # key}
    /\ bt_ops' = bt_ops + 1
    /\ bt_scan' = NoScan

\* a scan: Begin(), then operator* and operator++ until IsEnd()
TreeScanCall ==
    /\ bt_scan = NoScan
    /\ IF root_page_id_ = INVALID_PAGE_ID
       THEN \E outcome \in FetchOfInvalidPage : bt_scan' = [keys |-> <<>>, end |-> outcome]
       ELSE bt_scan' = IterateFrom(bt_pages, FindLeaf(bt_pages, root_page_id_, 0, 1), 0, <<>>)
    /\ UNCHANGED <<root_page_id_, bt_pages, bt_header, bt_ops, bt_ref, bt_last>>

TreeNext ==
    \/ \E key \in TreeKeys : \E value \in TreeValues : TreeInsertCall(key, value)
    \/ \E key \in TreeKeys : TreeRemoveCall(key)
    \/ TreeScanCall

(***************************************************************************)
(* InsertFromFile and RemoveFromFile: the keys of a file, one call each.   *)
(* The loop tests the stream before it reads, so the read that meets the   *)
(* end of the file leaves key as it was and the last key is handed to      *)
(* Insert or Remove a second time.                                         *)
(***************************************************************************)
RECURSIVE KeyOrders(_)
KeyOrders(S) ==
    IF S = {} THEN {<<>>}
    ELSE UNION {{<<x>> \o rest : rest \in KeyOrders(S \ {x})} : x \in S}

\* the files of the model: some of the keys, each once, in some order
TreeFiles == UNION {KeyOrders(S) : S \in (SUBSET TreeKeys) \ {{}}}

\* the keys the loop hands on: those of the file, then the last one again
KeysRead(file) == file \o <<file[Len(file)]>>

\* RID(key): the value is determined by the key
RIDOfKey(key) == (key % NumTreeValues) + 1

RECURSIVE InsertFromFile(_, _)
InsertFromFile(T, keys) ==
    IF keys = <<>> THEN T
    ELSE InsertFromFile(BTInsert(T, Head(keys), RIDOfKey(Head(keys))).tree, Tail(keys))

RECURSIVE RemoveFromFile(_, _)
RemoveFromFile(T, keys) ==
    IF keys = <<>> THEN T
    ELSE RemoveFromFile(BTRemove(T, Head(keys)), Tail(keys))

RECURSIVE RefInsertAll(_, _)
RefInsertAll(ref, keys) ==
    IF keys = <<>> THEN ref
    ELSE RefInsertAll(IF Head(keys) \in StoredKeys(ref) THEN ref
                      ELSE ref \cup {<<Head(keys), RIDOfKey(Head(keys))>>}, Tail(keys))

\* a call of InsertFromFile(file_name)
TreeInsertFromFileCall(file) ==
    /\ bt_ops < MaxTreeFileCalls
    /\ LET result == InsertFromFile(BTTree, KeysRead(file)) IN
       /\ root_page_id_' = result.root
       /\ bt_pages' = result.pages
       /\ bt_header' = result.header
    /\ bt_last' = [op |-> "InsertFromFile", key |-> file[Len(file)], value |-> 0,
                   stored |-> file[Len(file)] \in StoredKeys(bt_ref), again |-> FALSE,
                   ret |-> "void"]
    /\ bt_ref' = RefInsertAll(bt_ref, file)
    /\ bt_ops' = bt_ops + 1
    /\ bt_scan' = NoScan

\* a call of RemoveFromFile(file_name)
TreeRemoveFromFileCall(file) ==
    /\ bt_ops < MaxTreeFileCalls
    /\ LET result == RemoveFromFile(BTTree, KeysRead(file)) IN
       /\ root_page_id_' = result.root
       /\ bt_pages' = result.pages
       /\ bt_header' = result.header
    /\ bt_last' = [op |-> "RemoveFromFile", key |-> file[Len(file)], value |-> 0,
                   stored |-> file[Len(file)] \in StoredKeys(bt_ref), again |-> FALSE,
                   ret |-> "void"]
    /\ bt_ref' = {pair \in bt_ref : \A i \in 1..Len(file) : pair[1] # file[i]}
    /\ bt_ops' = bt_ops + 1
    /\ bt_scan' = NoScan

TreeFileNext ==
    \/ \E file \in TreeFiles : TreeInsertFromFileCall(file)
    \/ \E file \in TreeFiles : TreeRemoveFromFileCall(file)

(***************************************************************************)
(* The B+ tree called from several threads.  A step of a thread is one     *)
(* blocking latch acquisition together with the code that follows it up to *)
(* the next blocking acquisition.  rwlatch_ and the page latches are kept  *)
(* per thread: rwlatch is the mode in which the thread holds rwlatch_, wl  *)
(* and rl are the pages it holds write- and read-latched.  ct_ref is the   *)
(* set of pairs a sequential tree would hold, changed at the step in which *)
(* an operation reads or writes its leaf.                                  *)
(***************************************************************************)
TreeThreads == 1..NumTreeThreads
NoThread ==
    [pc |-> "done", op |-> "none", exit |-> "none", key |-> 0, page |-> INVALID_PAGE_ID,
     page_set |-> <<>>, is_root_latched |-> FALSE, deleted |-> {}, parents |-> <<>>,
     node |-> INVALID_PAGE_ID, index |-> 0, ret |-> "none", agrees |-> TRUE,
     rwlatch |-> "none", wl |-> {}, rl |-> {}, end_page |-> INVALID_PAGE_ID, end_rl |-> {}]
\* the tree before its constructor has run
NotConstructed ==
    [root |-> INVALID_PAGE_ID, pages |-> <<>>, deleted |-> {}, header |-> <<>>,
     leaf_max_size_ |-> 0, internal_max_size_ |-> 0,
     pins |-> <<>>, budget |-> Unlimited, oom |-> FALSE, zero_unpin |-> FALSE, retired |-> {}]

TreeThreadsInit ==
    /\ ct_tree = NotConstructed
    /\ ct_th = [t \in TreeThreads |-> NoThread]
    /\ ct_ref = {}
    /\ ct_ops = 0

\* the sizes, loads and page budgets the constructor step chooses from, and the keys
\* the threads use (two at each end of the load); the load is made of the even keys
TreeMaxSizes == {LEAF_MAX_SIZE, LEAF_MAX_SIZE + 1}
TreeLoads == {0, 2, MaxTreeLoad}
TreeBudgets == {Unlimited, 0, 1}
TreeThreadKeys == {1, 2, 2 * MaxTreeLoad - 1, 2 * MaxTreeLoad}
PreloadValue == 1

RECURSIVE Preload(_, _, _)
\* Insert of the keys 2 * first .. 2 * last, one after the other, by one thread
Preload(T, first, last) ==
    IF first > last THEN T
    ELSE Preload(BTInsert(T, 2 * first, PreloadValue).tree, first + 1, last)

\* BPlusTree::BPlusTree(name, bpm, comparator, leaf_max_size, internal_max_size), a
\* single-threaded load of the keys 2, 4 .. 2 * loaded, and the number of pages the buffer
\* pool can still hand out afterwards
TreeConstruct(max_size, loaded, budget) ==
    /\ ct_tree = NotConstructed
    /\ ct_tree' = [Preload([NotConstructed EXCEPT !.leaf_max_size_ = max_size,
                                                  !.internal_max_size_ = max_size],
                           1, loaded)
                       EXCEPT !.budget = budget, !.retired = {}]
    /\ ct_ref' = {<<2 * i, PreloadValue>> : i \in 1..loaded}
    /\ UNCHANGED <<ct_th, ct_ops>>

Constructed == ct_tree.leaf_max_size_ > 0
WLatched(page_id) == \E t \in TreeThreads : page_id \in ct_th[t].wl
RLatched(page_id) == \E t \in TreeThreads : page_id \in ct_th[t].rl \cup ct_th[t].end_rl
WLocked == \E t \in TreeThreads : ct_th[t].rwlatch = "W"
RLocked == \E t \in TreeThreads : ct_th[t].rwlatch = "R"
RefHas(key) == \E pair \in ct_ref : pair[1] = key
RefValue(key) == (CHOOSE pair \in ct_ref : pair[1] = key)[2]

\* the record of a thread whose operation has returned with everything released
Returned(th, exit, ret, agrees) ==
    [NoThread EXCEPT !.op = th.op, !.exit = exit, !.ret = ret, !.agrees = agrees]
\* the record of a thread whose operation was left by the exception of line 102, 120,
\* 244 or 261: nothing is caught, so what was held stays held
Thrown(th) == [th EXCEPT !.pc = "done", !.exit = "out of memory"]

RECURSIVE UnpinAll(_, _)
\* UnpinPage of every page of a sequence of pages
UnpinAll(T, page_seq) ==
    IF page_seq = <<>> THEN T ELSE UnpinAll(UnpinPage(T, Head(page_seq)), Tail(page_seq))

RECURSIVE UnpinSet(_, _)
\* UnpinPage of every page of a set of pages
UnpinSet(T, page_ids) ==
    IF page_ids = {} THEN T
    ELSE LET page_id == CHOOSE q \in page_ids : TRUE
         IN UnpinSet(UnpinPage(T, page_id), page_ids \ {page_id})

\* a slip in the descent of Insert: a page that the insertion fills is taken for safe
SafeForWhenFilling(op, node) ==
    IF op = "Insert" THEN GetSize(node) < GetMaxSize(node)
    ELSE GetSize(node) > GetMinSize(node)

\* a slip in the descent: every child is taken for safe
SafeForAlways(op, node) == TRUE

\* the test of line 163 (Insert) and of line 345 (Remove) on a page
SafeFor(op, node) ==
    IF op = "Insert" THEN GetSize(node) + 1 < GetMaxSize(node)
    ELSE GetSize(node) > GetMinSize(node)

\* a slip in the release: rwlatch_ stays locked
ReleasePageSetKeepsLock(th) ==
    [th EXCEPT !.is_root_latched = FALSE,
               !.wl = @ \ {th.page_set[i] : i \in DOMAIN th.page_set},
               !.page_set = <<>>]

\* InsertIntoLeaf 168-176, 181-190, 211-220 and Remove 345-355, 363-372, 384-393:
\* rwlatch_ is unlocked if still held, every page of the page set is unlatched and unpinned
ReleasePageSet(th) ==
    [th EXCEPT !.is_root_latched = FALSE, !.rwlatch = "none",
               !.wl = @ \ {th.page_set[i] : i \in DOMAIN th.page_set},
               !.page_set = <<>>]

\* a thread may call: the tree is there, the thread is between two operations and was
\* not thrown out of one, and the bound on the calls is not reached
MayCall(t) ==
    /\ Constructed /\ ct_ops < MaxTreeThreadOps
    /\ ct_th[t].pc = "done" /\ ct_th[t].exit \notin {"out of memory", "null page"}
\* rwlatch_.RLock() / rwlatch_.WLock() would not block
LockAvailable(op) == IF op \in {"GetValue", "Begin"} THEN ~WLocked ELSE ~WLocked /\ ~RLocked
\* the record of a thread that waits in rwlatch_.RLock() / rwlatch_.WLock()
Waiting(op, key) == [NoThread EXCEPT !.pc = "rwlatch_", !.op = op, !.key = key]

\* GetValue, line 46-50, with rwlatch_ read-locked: the empty tree answered at once, else
\* the root fetched
GetValueLocked(t, key) ==
    /\ IF BTIsEmpty(ct_tree)
       THEN /\ ct_th' = [ct_th EXCEPT ![t] =
                   Returned([NoThread EXCEPT !.op = "GetValue"], "empty", "false", ~RefHas(key))]
            /\ UNCHANGED ct_tree
       ELSE /\ ct_th' = [ct_th EXCEPT ![t] =
                   [NoThread EXCEPT !.pc = "R_page", !.op = "GetValue", !.key = key,
                                    !.page = ct_tree.root, !.rwlatch = "R"]]
            /\ ct_tree' = PinPage(ct_tree, ct_tree.root)
    /\ UNCHANGED ct_ref

\* Begin(), line 598-599, with rwlatch_ read-locked: FindLeafPage fetches root_page_id_
\* whatever it is
BeginLocked(t) ==
    /\ IF BTIsEmpty(ct_tree)
       THEN \E outcome \in FetchOfInvalidPage :
               IF outcome = "null page"
               THEN /\ ct_th' = [ct_th EXCEPT ![t] =
                           [NoThread EXCEPT !.op = "Begin", !.exit = outcome, !.rwlatch = "R"]]
                    /\ UNCHANGED ct_tree
               ELSE /\ ct_th' = [ct_th EXCEPT ![t] =
                           [NoThread EXCEPT !.pc = "iterator", !.op = "Begin", !.exit = outcome,
                                            !.rl = {INVALID_PAGE_ID}]]
                    /\ ct_tree' = PinPage(ct_tree, INVALID_PAGE_ID)
       ELSE /\ ct_th' = [ct_th EXCEPT ![t] =
                   [NoThread EXCEPT !.pc = "R_page", !.op = "Begin",
                                    !.page = ct_tree.root, !.rwlatch = "R"]]
            /\ ct_tree' = PinPage(ct_tree, ct_tree.root)
    /\ UNCHANGED ct_ref

\* FindLeafPage, line 640-641 and 655-659: RLatch of the fetched page, then rwlatch_ or
\* the parent is let go; at the leaf GetValue looks up, unlatches and unpins (56-59),
\* Begin constructs the iterator
TreeReadLatch(t) ==
    /\ ct_th[t].pc = "R_page" /\ ~WLatched(ct_th[t].page)
    /\ LET th == ct_th[t]
           node == ct_tree.pages[th.page]
           T1 == UnpinSet(ct_tree, th.rl)
       IN /\ UNCHANGED <<ct_ref, ct_ops>>
          /\ IF ~node.leaf
             THEN LET child_id == IF th.op = "GetValue" THEN InternalLookup(node, th.key)
                                  ELSE ValueAt(node, 0)
                  IN /\ ct_th' = [ct_th EXCEPT ![t] =
                            [th EXCEPT !.page = child_id, !.rl = {th.page}, !.rwlatch = "none"]]
                     /\ ct_tree' = PinPage(T1, child_id)
             ELSE IF th.op = "GetValue"
             THEN LET found == LeafLookup(node, th.key)
                  IN /\ ct_th' = [ct_th EXCEPT ![t] =
                            Returned(th, IF found.found THEN "success" ELSE "missing",
                                     IF found.found THEN "true" ELSE "false",
                                     /\ found.found = RefHas(th.key)
                                     /\ found.found => found.value = RefValue(th.key))]
                     /\ ct_tree' = UnpinPage(T1, th.page)
             ELSE /\ ct_th' = [ct_th EXCEPT ![t] =
                         [th EXCEPT !.pc = "iterator", !.rl = {th.page}, !.rwlatch = "none",
                                    !.index = 0]]
                  /\ ct_tree' = T1

\* Insert, line 83-90, and InsertIntoLeaf up to the fetch of the root (150-151), with
\* rwlatch_ write-locked
InsertLocked(t, key) ==
    /\ IF BTIsEmpty(ct_tree)
       THEN LET T1 == StartNewTree(ct_tree, key, t)
            IN IF T1.oom
               THEN /\ ct_th' = [ct_th EXCEPT ![t] =
                           Thrown([NoThread EXCEPT !.op = "Insert", !.rwlatch = "W"])]
                    /\ UNCHANGED <<ct_tree, ct_ref>>
               ELSE /\ ct_th' = [ct_th EXCEPT ![t] =
                           Returned([NoThread EXCEPT !.op = "Insert"], "success", "true",
                                    ~RefHas(key))]
                    /\ ct_tree' = T1
                    /\ ct_ref' = ct_ref \cup {<<key, t>>}
       ELSE /\ ct_th' = [ct_th EXCEPT ![t] =
                   [NoThread EXCEPT !.pc = "W_page", !.op = "Insert", !.key = key,
                                    !.page = ct_tree.root, !.is_root_latched = TRUE,
                                    !.rwlatch = "W"]]
            /\ ct_tree' = PinPage(ct_tree, ct_tree.root)
            /\ UNCHANGED ct_ref

\* Remove, line 323-329, with rwlatch_ write-locked
RemoveLocked(t, key) ==
    /\ IF BTIsEmpty(ct_tree)
       THEN /\ ct_th' = [ct_th EXCEPT ![t] =
                   Returned([NoThread EXCEPT !.op = "Remove"], "empty", "void", ~RefHas(key))]
            /\ UNCHANGED ct_tree
       ELSE /\ ct_th' = [ct_th EXCEPT ![t] =
                   [NoThread EXCEPT !.pc = "W_page", !.op = "Remove", !.key = key,
                                    !.page = ct_tree.root, !.is_root_latched = TRUE,
                                    !.rwlatch = "W"]]
            /\ ct_tree' = PinPage(ct_tree, ct_tree.root)
    /\ UNCHANGED ct_ref

\* what an operation does once it has rwlatch_
Locked(t, op, key) ==
    CASE op = "GetValue" -> GetValueLocked(t, key)
      [] op = "Begin" -> BeginLocked(t)
      [] op = "Insert" -> InsertLocked(t, key)
      [] op = "Remove" -> RemoveLocked(t, key)

\* a call of GetValue, Begin, Insert or Remove: rwlatch_.RLock() (46, 598) or
\* rwlatch_.WLock() (81, 320) and what follows, or the wait for rwlatch_
TreeCall(t, op, key) ==
    /\ MayCall(t)
    /\ ct_ops' = ct_ops + 1
    /\ IF LockAvailable(op) THEN Locked(t, op, key)
       ELSE /\ ct_th' = [ct_th EXCEPT ![t] = Waiting(op, key)]
            /\ UNCHANGED <<ct_tree, ct_ref>>
TreeGetValueStart(t, key) == TreeCall(t, "GetValue", key)
TreeBeginStart(t) == TreeCall(t, "Begin", 0)
TreeInsertStart(t, key) == TreeCall(t, "Insert", key)
TreeRemoveStart(t, key) == TreeCall(t, "Remove", key)

\* rwlatch_.RLock() / rwlatch_.WLock() of a waiting thread returns
TreeLock(t) ==
    /\ ct_th[t].pc = "rwlatch_" /\ LockAvailable(ct_th[t].op)
    /\ Locked(t, ct_th[t].op, ct_th[t].key)
    /\ UNCHANGED ct_ops

\* Remove, line 380-402, once the adjusting is over: the parents fetched by
\* AdjustLeafNode / AdjustInternalNode are unpinned (476, 541), everything is released
\* and the pages of the deleted page set are deleted
RemoveReturns(t, T, th, agrees) ==
    LET T1 == UnpinPage(UnpinAll(UnpinAll(T, th.parents), th.page_set), th.page)
    IN /\ ct_th' = [ct_th EXCEPT ![t] = Returned(th, "success", "void", agrees)]
       /\ ct_tree' = DrainDeletedPageSet(T1)
       /\ ct_ref' = {pair \in ct_ref : pair[1] # th.key}

\* InsertIntoLeaf 151-223 and Remove 329-378 from a WLatch on: the safe-node release, then
\* either the fetch of the child or the work on the leaf
TreeWriteLatch(t) ==
    /\ ct_th[t].pc = "W_page"
    /\ ~WLatched(ct_th[t].page) /\ ~RLatched(ct_th[t].page)
    /\ LET th0 == ct_th[t]
           node == ct_tree.pages[th0.page]
           safe == th0.page_set # <<>> /\ SafeFor(th0.op, node)
           th == [(IF safe THEN ReleasePageSet(th0) ELSE th0) EXCEPT !.wl = @ \cup {th0.page}]
           T1 == IF safe THEN UnpinAll(ct_tree, th0.page_set) ELSE ct_tree
       IN /\ UNCHANGED ct_ops
          /\ IF ~node.leaf
             THEN LET child_id == InternalLookup(node, th.key)
                  IN /\ ct_th' = [ct_th EXCEPT ![t] =
                            [th EXCEPT !.page_set = Append(@, th.page), !.page = child_id]]
                     /\ ct_tree' = PinPage(T1, child_id)
                     /\ UNCHANGED ct_ref
             ELSE IF th.op = "Insert"
             THEN LET result == InsertAtLeaf(T1, th.page, th.key, t)
                      T2 == result.tree
                  IN IF ~result.ret
                     THEN /\ ct_th' = [ct_th EXCEPT ![t] =
                                 Returned(th, "duplicate", "false", RefHas(th.key))]
                          /\ ct_tree' = UnpinPage(UnpinAll(T2, th.page_set), th.page)
                          /\ UNCHANGED ct_ref
                     ELSE IF T2.oom
                     THEN /\ ct_th' = [ct_th EXCEPT ![t] = Thrown(th)]
                          /\ ct_tree' = [T2 EXCEPT !.oom = FALSE]
                          /\ ct_ref' = ct_ref \cup {<<th.key, t>>}
                     ELSE /\ ct_th' = [ct_th EXCEPT ![t] =
                                 Returned(th, "success", "true", ~RefHas(th.key))]
                          /\ ct_tree' = UnpinPage(UnpinAll(T2, th.page_set), th.page)
                          /\ ct_ref' = ct_ref \cup {<<th.key, t>>}
             ELSE LET leaf_node == LeafRemoveAndDeleteRecord(node, th.key)
                      T2 == [T1 EXCEPT !.pages[th.page] = leaf_node]
                  IN IF GetSize(leaf_node) = GetSize(node)
                     THEN /\ ct_th' = [ct_th EXCEPT ![t] =
                                 Returned(th, "missing", "void", ~RefHas(th.key))]
                          /\ ct_tree' = UnpinPage(UnpinAll(T1, th.page_set), th.page)
                          /\ UNCHANGED ct_ref
                     ELSE IF GetSize(leaf_node) >= GetMinSize(leaf_node)
                     THEN RemoveReturns(t, T2, th, RefHas(th.key))
                     ELSE IF IsRootPage(leaf_node)
                     THEN RemoveReturns(t, AdjustLeafNode(T2, th.page, th.key), th, RefHas(th.key))
                     ELSE /\ ct_th' = [ct_th EXCEPT ![t] =
                                 [th EXCEPT !.pc = "W_neighbour", !.node = th.page,
                                            !.agrees = RefHas(th.key)]]
                          /\ ct_tree' = T2
                          /\ ct_ref' = {pair \in ct_ref : pair[1] # th.key}

\* AdjustLeafNode 431-476 / AdjustInternalNode 496-541 for the node th.node: the WLatch
\* of the sibling, the borrowing or merging, and the step to the parent if it underflows
TreeNeighbourLatch(t) ==
    /\ ct_th[t].pc = "W_neighbour"
    /\ LET th0 == ct_th[t]
           node == ct_tree.pages[th0.node]
           parent_id == node.parent
           neighbour_id == NeighbourOf(ct_tree, th0.node, th0.key)
           T0 == [ct_tree EXCEPT !.deleted = th0.deleted]
           T1 == IF node.leaf THEN AdjustLeafLevel(T0, th0.node, th0.key)
                 ELSE AdjustInternalLevel(T0, th0.node, th0.key)
           th == [th0 EXCEPT !.parents = Append(@, parent_id)]
       IN /\ neighbour_id # INVALID_PAGE_ID => ~WLatched(neighbour_id) /\ ~RLatched(neighbour_id)
          /\ UNCHANGED ct_ops
          /\ IF GetSize(T1.pages[parent_id]) >= GetMinSize(T1.pages[parent_id])
             THEN RemoveReturns(t, T1, th, th.agrees)
             ELSE IF IsRootPage(T1.pages[parent_id])
             THEN RemoveReturns(t, AdjustInternalNode(T1, parent_id, th.key), th, th.agrees)
             ELSE /\ ct_th' = [ct_th EXCEPT ![t] =
                         [th EXCEPT !.node = parent_id, !.deleted = T1.deleted]]
                  /\ ct_tree' = [T1 EXCEPT !.deleted = {}]
                  /\ UNCHANGED ct_ref

\* IndexIterator::operator++ (38-56) of an iterator that is not at its end; at a leaf
\* boundary the current page is unlatched and unpinned first
TreeIteratorNext(t) ==
    LET th == ct_th[t]
        node_ == ct_tree.pages[th.page]
    IN /\ th.pc = "iterator" /\ th.page \in DOMAIN ct_tree.pages
       /\ ~(node_.next = INVALID_PAGE_ID /\ th.index >= GetSize(node_))
       /\ th.index < GetMaxSize(node_)
       /\ IF th.index + 1 = GetSize(node_) /\ node_.next # INVALID_PAGE_ID
          THEN /\ ct_th' = [ct_th EXCEPT ![t] =
                      [th EXCEPT !.pc = "iterator fetch", !.page = node_.next, !.rl = {},
                                 !.index = 0]]
               /\ ct_tree' = UnpinPage(ct_tree, th.page)
          ELSE /\ ct_th' = [ct_th EXCEPT ![t] = [th EXCEPT !.index = @ + 1]]
               /\ UNCHANGED ct_tree
       /\ UNCHANGED <<ct_ref, ct_ops>>

\* operator++, line 48: FetchPage(next_page_id), whether or not the page still exists
TreeIteratorFetch(t) ==
    /\ ct_th[t].pc = "iterator fetch"
    /\ ct_th' = [ct_th EXCEPT ![t].pc = "iterator latch"]
    /\ ct_tree' = PinPage(ct_tree, ct_th[t].page)
    /\ UNCHANGED <<ct_ref, ct_ops>>

\* operator++, line 49: RLatch of the page fetched
TreeIteratorLatch(t) ==
    /\ ct_th[t].pc = "iterator latch" /\ ~WLatched(ct_th[t].page)
    /\ ct_th' = [ct_th EXCEPT ![t] =
                   [ct_th[t] EXCEPT !.pc = "iterator", !.rl = {ct_th[t].page}]]
    /\ UNCHANGED <<ct_tree, ct_ref, ct_ops>>

\* IndexIterator::~IndexIterator (20-24)
TreeIteratorDestroy(t) ==
    LET th == ct_th[t]
    IN /\ th.pc = "iterator"
       /\ ct_th' = [ct_th EXCEPT ![t] = Returned([th EXCEPT !.op = "~IndexIterator"],
                                                 th.exit, "void", TRUE)]
       /\ ct_tree' = UnpinSet(ct_tree, th.rl)
       /\ UNCHANGED <<ct_ref, ct_ops>>

(***************************************************************************)
(* End() called by a thread that holds an iterator, as the loop             *)
(*   for (it = Begin(); it != End(); ++it)                                  *)
(* does: the iterator keeps the read latch and the pin of its leaf while    *)
(* End() locks rwlatch_ and goes down to the last leaf.                     *)
(***************************************************************************)
\* End(), line 624 and 640-641, with rwlatch_ read-locked: the root is fetched
EndLocked(t) ==
    /\ ct_th' = [ct_th EXCEPT ![t] =
            [ct_th[t] EXCEPT !.pc = "End R_page", !.end_page = ct_tree.root, !.rwlatch = "R"]]
    /\ ct_tree' = PinPage(ct_tree, ct_tree.root)
    /\ UNCHANGED ct_ref

\* the call of End() by a thread whose iterator stands on a leaf of the tree:
\* rwlatch_.RLock() (624) and what follows, or the wait for rwlatch_
TreeIteratorEnd(t) ==
    /\ ct_th[t].pc = "iterator" /\ ct_th[t].page \in DOMAIN ct_tree.pages
    /\ ct_th[t].rl = {ct_th[t].page}
    /\ ~BTIsEmpty(ct_tree) /\ ct_ops < MaxTreeThreadOps
    /\ ct_ops' = ct_ops + 1
    /\ IF ~WLocked THEN EndLocked(t)
       ELSE /\ ct_th' = [ct_th EXCEPT ![t].pc = "End rwlatch_"]
            /\ UNCHANGED <<ct_tree, ct_ref>>

\* rwlatch_.RLock() of End() returns
TreeIteratorEndLock(t) ==
    /\ ct_th[t].pc = "End rwlatch_" /\ ~WLocked /\ ~BTIsEmpty(ct_tree)
    /\ EndLocked(t)
    /\ UNCHANGED ct_ops

\* FindLeafPage with option 2, line 641-643 and 655-659: RLatch of the fetched page, then
\* rwlatch_ or the parent is let go; at the last leaf the iterator End() returns is
\* compared and destroyed, which unlatches and unpins that leaf
TreeIteratorEndLatch(t) ==
    /\ ct_th[t].pc = "End R_page" /\ ~WLatched(ct_th[t].end_page)
    /\ LET th == ct_th[t]
           node == ct_tree.pages[th.end_page]
           T1 == UnpinSet(ct_tree, th.end_rl)
       IN IF ~node.leaf
          THEN /\ ct_th' = [ct_th EXCEPT ![t] =
                      [th EXCEPT !.end_page = ValueAt(node, GetSize(node) - 1),
                                 !.end_rl = {th.end_page}, !.rwlatch = "none"]]
               /\ ct_tree' = PinPage(T1, ValueAt(node, GetSize(node) - 1))
          ELSE /\ ct_th' = [ct_th EXCEPT ![t] =
                      [th EXCEPT !.pc = "iterator", !.end_page = INVALID_PAGE_ID,
                                 !.end_rl = {}, !.rwlatch = "none"]]
               /\ ct_tree' = UnpinPage(T1, th.end_page)
    /\ UNCHANGED <<ct_ref, ct_ops>>

TreeThreadsNext ==
    \/ \E max_size \in TreeMaxSizes : \E loaded \in TreeLoads : \E budget \in TreeBudgets :
          TreeConstruct(max_size, loaded, budget)
    \/ \E t \in TreeThreads : \E key \in TreeThreadKeys : TreeGetValueStart(t, key)
    \/ \E t \in TreeThreads : \E key \in TreeThreadKeys : TreeInsertStart(t, key)
    \/ \E t \in TreeThreads : \E key \in TreeThreadKeys : TreeRemoveStart(t, key)
    \/ \E t \in TreeThreads : TreeBeginStart(t)
    \/ \E t \in TreeThreads : TreeLock(t)
    \/ \E t \in TreeThreads : TreeReadLatch(t)
    \/ \E t \in TreeThreads : TreeWriteLatch(t)
    \/ \E t \in TreeThreads : TreeNeighbourLatch(t)
    \/ \E t \in TreeThreads : TreeIteratorNext(t)
    \/ \E t \in TreeThreads : TreeIteratorFetch(t)
    \/ \E t \in TreeThreads : TreeIteratorLatch(t)
    \/ \E t \in TreeThreads : TreeIteratorDestroy(t)

\* the threads as before, and End() called under a live iterator
TreeIteratorsNext ==
    \/ TreeThreadsNext
    \/ \E t \in TreeThreads : TreeIteratorEnd(t)
    \/ \E t \in TreeThreads : TreeIteratorEndLock(t)
    \/ \E t \in TreeThreads : TreeIteratorEndLatch(t)

\* the threads run GetValue, Insert and Remove, one operation each, on the loaded tree
TreeOnceNext ==
    \/ \E max_size \in TreeMaxSizes : \E budget \in {Unlimited, 0} :
          TreeConstruct(max_size, MaxTreeLoad, budget)
    \/ \E t \in TreeThreads : \E key \in TreeThreadKeys :
          ct_th[t].op = "none" /\ TreeGetValueStart(t, key)
    \/ \E t \in TreeThreads : \E key \in TreeThreadKeys :
          ct_th[t].op = "none" /\ TreeInsertStart(t, key)
    \/ \E t \in TreeThreads : \E key \in TreeThreadKeys :
          ct_th[t].op = "none" /\ TreeRemoveStart(t, key)
    \/ \E t \in TreeThreads : TreeLock(t)
    \/ \E t \in TreeThreads : TreeReadLatch(t)
    \/ \E t \in TreeThreads : TreeWriteLatch(t)
    \/ \E t \in TreeThreads : TreeNeighbourLatch(t)
(***************************************************************************)
(* The extendible hash table called from several threads.  A step of a     *)
(* thread is one blocking acquisition (table_latch_ or a page latch)       *)
(* together with the code that follows it up to the next blocking          *)
(* acquisition.  The page latch taken in GetValue, Insert and Remove is    *)
(* released in the step that takes it, and table_latch_ is write-locked    *)
(* for the length of one step (SplitInsert, Merge), so between steps the   *)
(* only latch held is table_latch_ in read mode, by a thread that waits    *)
(* for its bucket's page latch.                                            *)
(***************************************************************************)
HashThreads == 1..NumHashThreads

NoHashThread ==
    [pc |-> "done", op |-> "none", key |-> 0, value |-> 0,
     index |-> 0, bucket_page_id |-> 0, ret |-> FALSE, agrees |-> TRUE]

HashThreadsInit ==
    /\ ch_th = [t \in HashThreads |-> NoHashThread]
    /\ ch_ops = 0

\* the pairs a table may hold before the threads start: (key, 1) for the first keys
HashLoads == {NumHashKeys}

RECURSIVE HashPreload(_, _, _)
HashPreload(T, key, last) ==
    IF key > last THEN T ELSE HashPreload(HTInsert(T, key, 1).T, key + 1, last)

\* the table is filled by one thread before the others are started
HashThreadsLoad(load) ==
    /\ ch_ops = 0
    /\ ht_status = "ok"
    /\ ch_ops' = 1
    /\ LET T == HashPreload(HTTable, 0, load - 1) IN
       /\ ht_dir' = T.dir
       /\ ht_buckets' = T.buckets
       /\ ht_status' = T.status
    /\ ht_ref' = ht_ref \cup {<<key, 1>> : key \in 0..(load - 1)}
    /\ UNCHANGED <<hash_fn_, ht_ops, ht_last, ch_th>>

\* table_latch_ is held in read mode by a thread that has passed RLock and not yet
\* RUnlock: one that waits for its bucket's page latch
HashRLocked(t) == ch_th[t].pc = "page latch"

\* a thread calls GetValue, Insert or Remove and arrives at table_latch_.RLock()
HashThreadCall(t, op, key, value) ==
    /\ ch_th[t].pc = "done"
    /\ ht_status = "ok"
    /\ ch_ops < MaxHashThreadOps
    /\ ch_ops' = ch_ops + 1
    /\ ch_th' = [ch_th EXCEPT ![t] =
                    [NoHashThread EXCEPT !.pc = "table_latch_.RLock", !.op = op,
                                         !.key = key, !.value = value]]
    /\ UNCHANGED hashVars

\* GetValue 87-92, Insert 112-117, Remove 231-236: RLock, the directory slot of the
\* key and its bucket page are read, the page is fetched; next is the page latch
HashTableRLock(t) ==
    /\ ch_th[t].pc = "table_latch_.RLock"
    /\ ht_status = "ok"
    /\ LET index == LowBits(Hash(ch_th[t].key), GetGlobalDepth(ht_dir)) IN
       ch_th' = [ch_th EXCEPT ![t].pc = "page latch",
                              ![t].index = index,
                              ![t].bucket_page_id = GetBucketPageId(ht_dir, index)]
    /\ UNCHANGED <<hashVars, ch_ops>>

\* Remove 246-254 reads the directory page and the bucket page after it has unpinned
\* and unlatched them: while another thread is inside a call the reads race with its
\* writes and the test may come out either way
MergeDecisions(t, dir, bkt) ==
    LET local_depth == GetLocalDepth(dir, ch_th[t].index)
        image_index == ImageIndex(ch_th[t].index, local_depth)
        unraced == /\ local_depth > 0
                   /\ GetLocalDepth(dir, image_index) = local_depth
                   /\ IsEmpty(bkt)
    IN IF \E u \in HashThreads \ {t} : ch_th[u].pc # "done" THEN BOOLEAN ELSE {unraced}

\* GetValue 92-104: the page is read-latched, table_latch_ released, the values read
HashGetValueLatched(t) ==
    LET th == ch_th[t]
        pairs == MyGetValue(ht_buckets[th.bucket_page_id], th.key)
        found == {pairs[i][2] : i \in 1..Len(pairs)}
        stored == {v \in HashValues : <<th.key, v>> \in ht_ref}
    IN /\ ch_th' = [ch_th EXCEPT ![t].pc = "done",
                                 ![t].ret = (pairs # <<>>),
                                 ![t].agrees = (found = stored /\ Len(pairs) = Cardinality(stored))]
       /\ UNCHANGED hashVars

\* Insert 117-139: the page is write-latched, table_latch_ released; a pair already
\* there gives false, a free slot takes the pair, a full page leads to SplitInsert
HashInsertLatched(t) ==
    LET th == ch_th[t]
        bkt == ht_buckets[th.bucket_page_id]
        ins == MyInsert(bkt, th.key, th.value)
    IN IF IsExist(bkt, th.key, th.value)
       THEN /\ ch_th' = [ch_th EXCEPT ![t].pc = "done", ![t].ret = FALSE,
                                      ![t].agrees = (<<th.key, th.value>> \in ht_ref)]
            /\ UNCHANGED hashVars
       ELSE IF ins.ok
       THEN /\ ch_th' = [ch_th EXCEPT ![t].pc = "done", ![t].ret = TRUE,
                                      ![t].agrees = (<<th.key, th.value>> \notin ht_ref)]
            /\ ht_buckets' = [ht_buckets EXCEPT ![th.bucket_page_id] = ins.bucket]
            /\ ht_ref' = ht_ref \cup {<<th.key, th.value>>}
            /\ UNCHANGED <<hash_fn_, ht_ops, ht_dir, ht_status, ht_last>>
       ELSE /\ ch_th' = [ch_th EXCEPT ![t].pc = "SplitInsert"]
            /\ UNCHANGED hashVars

\* Remove 236-257: the page is write-latched, table_latch_ released, the pair removed,
\* the page unlatched; then the test for Merge
HashRemoveLatched(t) ==
    LET th == ch_th[t]
        rem == MyRemove(ht_buckets[th.bucket_page_id], th.key, th.value)
    IN /\ ht_buckets' = [ht_buckets EXCEPT ![th.bucket_page_id] = rem.bucket]
       /\ ht_ref' = ht_ref \ {<<th.key, th.value>>}
       /\ \E merge \in (IF rem.ok THEN MergeDecisions(t, ht_dir, rem.bucket) ELSE {FALSE}) :
             ch_th' = [ch_th EXCEPT ![t].pc = IF merge THEN "Merge" ELSE "done",
                                    ![t].ret = rem.ok,
                                    ![t].agrees = (rem.ok <=> <<th.key, th.value>> \in ht_ref)]
       /\ UNCHANGED <<hash_fn_, ht_ops, ht_dir, ht_status, ht_last>>

\* the page latch of the bucket: free whenever a thread asks for it, since every
\* holder releases it in the step that took it
HashPageLatch(t) ==
    /\ ch_th[t].pc = "page latch"
    /\ ht_status = "ok"
    /\ ch_th[t].bucket_page_id \in DOMAIN ht_buckets
    /\ UNCHANGED ch_ops
    /\ CASE ch_th[t].op = "GetValue" -> HashGetValueLatched(t)
         [] ch_th[t].op = "Insert" -> HashInsertLatched(t)
         [] ch_th[t].op = "Remove" -> HashRemoveLatched(t)

\* SplitInsert 143 and Merge 265: table_latch_.WLock() waits until no thread holds
\* the latch in read mode; the whole of SplitInsert or Merge follows under it
HashTableWLock(t) ==
    /\ ch_th[t].pc \in {"SplitInsert", "Merge"}
    /\ ht_status = "ok"
    /\ \A u \in HashThreads : ~HashRLocked(u)
    /\ UNCHANGED <<hash_fn_, ht_ops, ht_last, ch_ops>>
    /\ LET th == ch_th[t] IN
       IF th.pc = "SplitInsert"
       THEN LET r == SplitInsert(HTTable, th.key, th.value) IN
            /\ ht_dir' = r.T.dir
            /\ ht_buckets' = r.T.buckets
            /\ ht_status' = r.T.status
            /\ ht_ref' = ht_ref \cup {<<th.key, th.value>>}
            /\ ch_th' = [ch_th EXCEPT ![t].pc = "done", ![t].ret = r.ret,
                                      ![t].agrees = (r.ret <=> <<th.key, th.value>> \notin ht_ref)]
       ELSE LET T == Merge(HTTable, th.key, th.value) IN
            /\ ht_dir' = T.dir
            /\ ht_buckets' = T.buckets
            /\ ht_status' = T.status
            /\ ht_ref' = ht_ref
            /\ ch_th' = [ch_th EXCEPT ![t].pc = "done"]

HashThreadsNext ==
    \/ \E load \in HashLoads : HashThreadsLoad(load)
    \/ \E t \in HashThreads : \E key \in HashKeys : HashThreadCall(t, "GetValue", key, 0)
    \/ \E t \in HashThreads : \E key \in HashKeys : \E value \in HashValues :
          HashThreadCall(t, "Insert", key, value)
    \/ \E t \in HashThreads : \E key \in HashKeys : \E value \in HashValues :
          HashThreadCall(t, "Remove", key, value)
    \/ \E t \in HashThreads : HashTableRLock(t)
    \/ \E t \in HashThreads : HashPageLatch(t)
    \/ \E t \in HashThreads : HashTableWLock(t)

(***************************************************************************)
(* Specifications                                                          *)
(***************************************************************************)
Init == LRUInit /\ PBPMInit /\ HashInit /\ TreeInit /\ BucketInit /\ LRUThreadsInit /\ TreeThreadsInit /\ HashThreadsInit /\ HashTwinInit /\ BitmapInit

SpecLRU == Init /\ [][LRUNext /\ UNCHANGED <<pbpmVars, hashVars, treeVars, bucketVars, lruThreadVars, treeThreadVars, hashThreadVars, hashTwinVars, bitmapVars>>]_vars
SpecPBPM == Init /\ [][PBPMNext /\ UNCHANGED <<lruVars, hashVars, treeVars, bucketVars, lruThreadVars, treeThreadVars, hashThreadVars, hashTwinVars, bitmapVars>>]_vars
SpecHash == Init /\ [][HashNext /\ UNCHANGED <<lruVars, pbpmVars, treeVars, bucketVars, lruThreadVars, treeThreadVars, hashThreadVars, hashTwinVars, bitmapVars>>]_vars
SpecTree == Init /\ [][TreeNext /\ UNCHANGED <<lruVars, pbpmVars, hashVars, bucketVars, lruThreadVars, treeThreadVars, hashThreadVars, hashTwinVars, bitmapVars>>]_vars
SpecTreeFile == Init /\ [][TreeFileNext /\ UNCHANGED <<lruVars, pbpmVars, hashVars, bucketVars, lruThreadVars, treeThreadVars, hashThreadVars, hashTwinVars, bitmapVars>>]_vars
SpecBucket == Init /\ [][BucketNext /\ UNCHANGED <<lruVars, pbpmVars, hashVars, treeVars, lruThreadVars, treeThreadVars, hashThreadVars, hashTwinVars, bitmapVars>>]_vars
SpecLRUThreads == Init /\ [][LRUThreadsNext /\ UNCHANGED <<pbpmVars, hashVars, treeVars, bucketVars, treeThreadVars, hashThreadVars, hashTwinVars, bitmapVars>>]_vars
SpecTreeThreads == Init /\ [][TreeThreadsNext /\ UNCHANGED <<lruVars, pbpmVars, hashVars, treeVars, bucketVars, lruThreadVars, hashThreadVars, hashTwinVars, bitmapVars>>]_vars
SpecTreeOnce == Init /\ [][TreeOnceNext /\ UNCHANGED <<lruVars, pbpmVars, hashVars, treeVars, bucketVars, lruThreadVars, hashThreadVars, hashTwinVars, bitmapVars>>]_vars
SpecTreeIterators == Init /\ [][TreeIteratorsNext /\ UNCHANGED <<lruVars, pbpmVars, hashVars, treeVars, bucketVars, lruThreadVars, hashThreadVars, hashTwinVars, bitmapVars>>]_vars
SpecHashThreads == Init /\ [][HashThreadsNext /\ UNCHANGED <<lruVars, pbpmVars, treeVars, bucketVars, lruThreadVars, treeThreadVars, hashTwinVars, bitmapVars>>]_vars
SpecHashTwin == Init /\ [][HashTwinNext /\ UNCHANGED <<lruVars, pbpmVars, treeVars, bucketVars, lruThreadVars, treeThreadVars, hashThreadVars, bitmapVars>>]_vars
SpecBitmap == Init /\ [][BitmapNext /\ UNCHANGED <<lruVars, pbpmVars, hashVars, treeVars, bucketVars, lruThreadVars, treeThreadVars, hashThreadVars, hashTwinVars>>]_vars

(***************************************************************************)
(* Properties of the parallel buffer pool manager                          *)
(***************************************************************************)
\* C10: NewPgImp calls the instances in cyclic order from the start index it read,
\* each at most once; every call before the last one failed; the call returns the page
\* of the first instance that succeeds and calls none after it; it returns null iff
\* all NumInstances instances were called and failed.
NewPageRoundRobin ==
    \A c \in Callers :
        LET log == np_log[c] IN
        /\ Len(log) <= NumInstances
        /\ \A i \in 1..Len(log) : log[i][1] = (np_curr[c] + i - 1) % NumInstances
        /\ \A i \in 1..Len(log) : (i < Len(log)) => ~log[i][2]
        /\ (np_pc[c] = "done") =>
              /\ (np_page[c] # 0) <=> (Len(log) > 0 /\ log[Len(log)][2])
              /\ (np_page[c] # 0) => np_page[c] = log[Len(log)][1] + 1
              /\ (np_page[c] = 0) <=>
                    (Len(log) = NumInstances /\ \A i \in 1..Len(log) : ~log[i][2])

\* a call that started at a later instance, failed there, wrapped around to instance 0
\* and got its page from it
NewPageAfterWrapAround ==
    \E c \in Callers :
        /\ np_pc[c] = "done"
        /\ np_curr[c] > 0
        /\ Len(np_log[c]) >= 2
        /\ np_log[c][Len(np_log[c])] = <<0, TRUE>>
        /\ np_page[c] = 1

(***************************************************************************)
(* Properties of the LRU replacer                                          *)
(***************************************************************************)
\* C7: Victim on a non-empty replacer removes and returns the frame whose effective
\* Unpin is the earliest among the frames in the replacer; on an empty replacer it
\* returns false and changes nothing.
VictimIsLeastRecentlyUnpinned ==
    [][lru_last'.op = "Victim" =>
        IF ListFrames(lst_) = {}
        THEN /\ ~lru_last'.ret
             /\ lst_' = lst_ /\ mp_' = mp_
        ELSE /\ lru_last'.ret
             /\ lru_last'.frame \in ListFrames(lst_)
             /\ \A g \in ListFrames(lst_) \ {lru_last'.frame} :
                    lru_stamp[lru_last'.frame] < lru_stamp[g]
             /\ ListFrames(lst_') = ListFrames(lst_) \ {lru_last'.frame}
             /\ DOMAIN mp_' = (DOMAIN mp_) \ {lru_last'.frame}]_vars

\* a Victim that chose among two or more frames, one of them unpinned, pinned and
\* unpinned again
VictimChoseAmongSeveral ==
    /\ lru_last.op = "Victim" /\ lru_last.ret
    /\ Len(lst_) >= 1
    /\ lru_clock > Len(lst_) + 1

\* C8: in every reachable state Size() <= capacity, no frame occurs twice in the list,
\* and the map and the list hold the same frames, each map entry naming the list node
\* of its frame (so Size() is the list length).
ReplacerWellFormed ==
    /\ LRUSize <= capacity_
    /\ \A i \in 1..Len(lst_) : \A j \in 1..Len(lst_) :
            (i # j) => (lst_[i].frame # lst_[j].frame /\ lst_[i].node # lst_[j].node)
    /\ DOMAIN mp_ = ListFrames(lst_)
    /\ \A i \in 1..Len(lst_) : mp_[lst_[i].frame] = lst_[i].node
    /\ LRUSize = Len(lst_)

\* the replacer is at capacity and an Unpin of a further frame was just turned away
ReplacerFullUnpinRefused ==
    /\ Len(lst_) = capacity_
    /\ lru_last.op = "Unpin" /\ ~lru_last.ret
    /\ lru_last.frame \notin DOMAIN mp_

\* C9: Unpin(f) with f in the replacer, Unpin(f) with the replacer at capacity, and
\* Pin(f) with f absent leave the victim order and Size() unchanged.
NoOpCallsChangeNothing ==
    [][(\/ /\ lru_last'.op = "Unpin"
           /\ (lru_last'.frame \in DOMAIN mp_ \/ LRUSize = capacity_)
        \/ /\ lru_last'.op = "Pin"
           /\ lru_last'.frame \notin DOMAIN mp_)
       => (lst_' = lst_ /\ mp_' = mp_)]_vars

\* an Unpin of a frame that is in the replacer, and not the most recent one, was a no-op
UnpinOfResidentIgnored ==
    /\ lru_last.op = "Unpin" /\ ~lru_last.ret
    /\ lru_last.frame \in DOMAIN mp_
    /\ Len(lst_) >= 2
    /\ lst_[1].frame # lru_last.frame

(***************************************************************************)
(* Properties of the B+ tree                                               *)
(***************************************************************************)
\* the elements of a finite set of integers in ascending order
SortedSeq(S) ==
    [i \in 1..Cardinality(S) |-> CHOOSE x \in S : Cardinality({y \in S : y < x}) = i - 1]

\* C2: after any sequence of Insert and Remove calls, the scan from Begin() until
\* IsEnd() ends at IsEnd() and has yielded exactly the stored keys, each once, in
\* strictly ascending order.
ScanYieldsStoredKeys ==
    (bt_scan.end # "none") =>
        /\ bt_scan.end = "IsEnd"
        /\ bt_scan.keys = SortedSeq(StoredKeys(bt_ref))

\* C3: Insert(k,v) of an absent key returns true and then GetValue(k) finds exactly v;
\* Insert(k,v') of a present key returns false and leaves root and pages unchanged.
InsertKeepsKeysUnique ==
    [][(bt_last'.op = "Insert" /\ bt_ops' = bt_ops + 1) =>
        IF bt_last'.key \in StoredKeys(bt_ref)
        THEN /\ bt_last'.ret = "false"
             /\ bt_pages' = bt_pages
             /\ root_page_id_' = root_page_id_
        ELSE /\ bt_last'.ret = "true"
             /\ BTGetValue(BTTree', bt_last'.key) =
                    [found |-> TRUE, value |-> bt_last'.value]]_vars

\* Insert(k,v) split a leaf and Insert(k,v') right after it was refused
DuplicateInsertRefused ==
    /\ bt_last.op = "Insert" /\ bt_last.stored /\ bt_last.again /\ bt_last.ret = "false"
    /\ <<bt_last.key, bt_last.value>> \notin bt_ref
    /\ ~bt_pages[root_page_id_].leaf

Occurrences(values, value) == Cardinality({i \in 1..Len(values) : values[i] = value})

\* C1: after any sequence of Insert and Remove calls, GetValue(k) yields for every key
\* k each value the reference set holds for k exactly once and no other value (and so
\* returns true iff the reference holds a value for k).
HashMatchesReference ==
    ht_status = "ok" =>
        \A key \in HashKeys : \A value \in HashValues :
            Occurrences(HTGetValue(HTTable, key), value)
                = (IF <<key, value>> \in ht_ref THEN 1 ELSE 0)

\* C5: in every reachable state Insert(k,v) returns false, changing nothing, iff (k,v)
\* is stored, and true otherwise; Remove(k,v) returns true iff (k,v) was stored, and
\* changes nothing when it returns false.
HashReportsStored ==
    ht_status = "ok" =>
        \A key \in HashKeys : \A value \in HashValues :
            LET ins == HTInsert(HTTable, key, value)
                rem == HTRemove(HTTable, key, value)
            IN /\ ins.T.status = "ok"
               /\ ins.ret = (<<key, value>> \notin ht_ref)
               /\ (~ins.ret => ins.T = HTTable)
               /\ rem.ret = (<<key, value>> \in ht_ref)
               /\ (~rem.ret => rem.T = HTTable)

\* C6: after every completed operation, two active directory slots name the same bucket
\* page iff they have the same local depth and agree on that many low bits.
DirectorySharing ==
    ht_status = "ok" =>
        \A s1 \in ActiveSlots(ht_dir) : \A s2 \in ActiveSlots(ht_dir) :
            (GetBucketPageId(ht_dir, s1) = GetBucketPageId(ht_dir, s2))
            <=> (/\ GetLocalDepth(ht_dir, s1) = GetLocalDepth(ht_dir, s2)
                 /\ LowBits(s1, GetLocalDepth(ht_dir, s1)) = LowBits(s2, GetLocalDepth(ht_dir, s1)))

\* a Remove whose Merge ran at least twice, the later time with its slot index outside
\* the shrunken directory
MergedBelowIndex ==
    /\ ht_status = "ok"
    /\ ht_last.op = "Remove"
    /\ ht_last.merges >= 2
    /\ ht_last.left

(***************************************************************************)
(* Properties of the bucket page                                           *)
(***************************************************************************)
\* the three things a slot consists of
SlotOf(bkt, i) == <<IsOccupied(bkt, i), IsReadable(bkt, i), bkt.array_[i]>>

\* C11: Insert(k,v) returns false and leaves the bucket unchanged iff the bucket
\* is full or a readable slot already holds (k,v); otherwise it stores (k,v) in
\* the lowest-index non-readable slot, sets that slot's occupied and readable
\* bits, changes no other slot, and returns true.
BucketInsertContract ==
    [][bp_last'.op = "Insert" =>
         LET k == bp_last'.key
             v == bp_last'.value
             full == \A i \in Slots : IsReadable(bp_page, i)
             dup == \E i \in Slots : IsReadable(bp_page, i) /\ bp_page.array_[i] = <<k, v>>
         IN /\ (bp_last'.ret = FALSE) <=> (full \/ dup)
            /\ bp_last'.ret = FALSE => bp_page' = bp_page
            /\ bp_last'.ret = TRUE =>
                 \E i \in Slots :
                    /\ ~IsReadable(bp_page, i)
                    /\ \A j \in 0..(i - 1) : IsReadable(bp_page, j)
                    /\ SlotOf(bp_page', i) = <<TRUE, TRUE, <<k, v>>>>
                    /\ \A j \in Slots \ {i} : SlotOf(bp_page', j) = SlotOf(bp_page, j)]_vars

\* an Insert took the slot of a tombstone that lies before a slot never used
InsertReusedTombstone ==
    /\ bp_last.op = "Insert" /\ bp_last.ret = TRUE
    /\ \E i \in Slots :
          /\ IsOccupied(bp_last.before, i) /\ ~IsReadable(bp_last.before, i)
          /\ \A j \in 0..(i - 1) : IsReadable(bp_last.before, j)
          /\ \E n \in Slots : n > i /\ ~IsOccupied(bp_last.before, n)
          /\ SlotOf(bp_page, i) = <<TRUE, TRUE, <<bp_last.key, bp_last.value>>>>

\* C12: in every reachable state of a bucket page readable[i] implies
\* occupied[i] for every slot i, and a Remove that succeeds leaves a tombstone:
\* the slot it cleared is still occupied and no longer readable.
ReadableImpliesOccupied ==
    /\ [](\A i \in Slots : IsReadable(bp_page, i) => IsOccupied(bp_page, i))
    /\ [][(bp_last'.op \in {"Remove", "MyRemove"} /\ bp_last'.ret = TRUE) =>
            \E i \in Slots :
               /\ SlotOf(bp_page, i) = <<TRUE, TRUE, <<bp_last'.key, bp_last'.value>>>>
               /\ SlotOf(bp_page', i) = <<TRUE, FALSE, <<bp_last'.key, bp_last'.value>>>>
               /\ \A j \in Slots \ {i} : SlotOf(bp_page', j) = SlotOf(bp_page, j)]_vars

\* a Remove succeeded on a page that keeps another readable pair
RemoveLeftTombstone ==
    /\ bp_last.op = "Remove" /\ bp_last.ret = TRUE
    /\ \E i \in Slots : IsOccupied(bp_page, i) /\ ~IsReadable(bp_page, i)
                          /\ bp_page.array_[i] = <<bp_last.key, bp_last.value>>
    /\ \E i \in Slots : IsReadable(bp_page, i)

(***************************************************************************)
(* Properties of the replacer called from several threads                  *)
(***************************************************************************)
\* C20: every LRUReplacer operation (Victim, Pin, Unpin and Size) is atomic
\* under the replacer's mutex: no operation reads or writes the list or the
\* map while another thread is inside an operation.
ReplacerOperationsAtomic ==
    \A t \in LRUThreads : \A u \in LRUThreads \ {t} :
        lru_pc[t] \in {"Victim", "Pin", "Unpin", "Size"} => lru_pc[u] \notin {"Victim", "Pin", "Unpin"}

(***************************************************************************)
(* Properties of the header page record                                    *)
(***************************************************************************)
\* C18: after every completed Insert or Remove the header-page record for the
\* index name equals root_page_id_: the first publication inserts the record
\* and every later root change (root split, root collapse, tree emptied, tree
\* started again after having been emptied) updates it.
HeaderRecordIsRoot ==
    /\ root_page_id_ # INVALID_PAGE_ID => HasRecord(bt_header, index_name_)
    /\ HasRecord(bt_header, index_name_) => GetRootId(bt_header, index_name_) = root_page_id_

(***************************************************************************)
(* Properties of the B+ tree called from several threads                   *)
(***************************************************************************)
\* C13 (tree): a thread whose GetValue, Insert or Remove has been left, by a return or
\* by the out-of-memory exception, holds neither rwlatch_ nor a page latch, and its
\* page set is empty
ExitHoldsNoLatch ==
    \A t \in TreeThreads :
        (ct_th[t].pc = "done" /\ ct_th[t].op \in {"GetValue", "Insert", "Remove"}) =>
            /\ ct_th[t].rwlatch = "none"
            /\ ct_th[t].wl = {} /\ ct_th[t].rl = {}
            /\ ct_th[t].page_set = <<>>

\* every thread is between two operations (or was thrown out of one)
ThreadsIdle == \A t \in TreeThreads : ct_th[t].pc = "done"
\* no operation was left by an exception, no Begin() has fetched the invalid page
NoFault ==
    \A t \in TreeThreads :
        ct_th[t].exit \notin {"out of memory", "null page", "page never written"}
\* the loop  for (it = Begin(); !it.IsEnd(); ++it)  run by one thread on the tree
FinalScan ==
    IF BTIsEmpty(ct_tree) THEN [keys |-> <<>>, end |-> "fetch of the invalid page"]
    ELSE IterateFrom(ct_tree.pages, FindLeaf(ct_tree.pages, ct_tree.root, 0, 1), 0, <<>>)
\* thread t waits for a page latch that thread u holds
BlockedOn(t, u) ==
    LET held == ct_th[u].wl \cup ct_th[u].rl IN
    \/ ct_th[t].pc = "rwlatch_" /\ ct_th[u].rwlatch = "W"
    \/ ct_th[t].pc = "rwlatch_" /\ ct_th[t].op \in {"Insert", "Remove"} /\ ct_th[u].rwlatch = "R"
    \/ ct_th[t].pc = "W_page" /\ ct_th[t].page \in held
    \/ ct_th[t].pc = "R_page" /\ ct_th[t].page \in ct_th[u].wl
    \/ ct_th[t].pc = "W_neighbour"
         /\ NeighbourOf(ct_tree, ct_th[t].node, ct_th[t].key) \in held
\* TreeWriteLatch(t) can be taken: its page is latched by nobody
WriteLatchEnabled(t) ==
    ct_th[t].pc = "W_page" /\ ~WLatched(ct_th[t].page) /\ ~RLatched(ct_th[t].page)
\* TreeNeighbourLatch(t) can be taken: the sibling, if there is one, is latched by nobody
NeighbourLatchEnabled(t) ==
    /\ ct_th[t].pc = "W_neighbour"
    /\ LET neighbour_id == NeighbourOf(ct_tree, ct_th[t].node, ct_th[t].key)
       IN neighbour_id # INVALID_PAGE_ID => ~WLatched(neighbour_id) /\ ~RLatched(neighbour_id)
\* the same under weak fairness of the steps of an operation that has begun (a thread
\* need not begin one); for the two write steps WF is written out, with the guard of the
\* step for its ENABLED
FairSpecTreeOnce ==
    /\ SpecTreeOnce
    /\ \A t \in TreeThreads :
          /\ WF_vars(TreeLock(t) /\ UNCHANGED notTreeThreadVars)
          /\ WF_vars(TreeReadLatch(t) /\ UNCHANGED notTreeThreadVars)
          /\ ([]<>~WriteLatchEnabled(t)) \/ ([]<><<TreeWriteLatch(t)>>_vars)
          /\ ([]<>~NeighbourLatchEnabled(t)) \/ ([]<><<TreeNeighbourLatch(t)>>_vars)

\* C14 (tree): every GetValue, Insert and Remove that a thread has begun runs to
\* completion under fair scheduling
TreeOperationsComplete ==
    \A t \in TreeThreads :
        (ct_th[t].pc \in {"rwlatch_", "R_page", "W_page", "W_neighbour"}
            /\ ct_th[t].op \in {"GetValue", "Insert", "Remove"})
        ~> (ct_th[t].pc = "done")

\* C16: every result returned agrees with the sequential tree at the step in which the
\* operation worked on its leaf, and once all threads have finished the tree holds
\* exactly the keys of that sequential tree and a scan yields them in ascending order
ThreadsLeaveSortedScan ==
    /\ \A t \in TreeThreads : ct_th[t].agrees
    /\ (Constructed /\ ThreadsIdle /\ NoFault) =>
          /\ \A key \in 1..(2 * MaxTreeLoad) : BTGetValue(ct_tree, key).found = RefHas(key)
          /\ FinalScan = [keys |-> SortedSeq(StoredKeys(ct_ref)), end |-> "IsEnd"]

\* C17: a live iterator holds the read latch and a pin on the one leaf page of the tree
\* it points into, and neither rwlatch_ nor any other latch; a destroyed iterator has
\* left its thread without a latch
IteratorHoldsOneLeaf ==
    \A t \in TreeThreads :
        /\ ct_th[t].pc = "iterator" =>
              /\ ct_th[t].rwlatch = "none"
              /\ ct_th[t].rl = {ct_th[t].page} /\ ct_th[t].wl = {}
              /\ ct_th[t].page \in DOMAIN ct_tree.pages
              /\ ct_tree.pages[ct_th[t].page].leaf
              /\ PinCount(ct_tree, ct_th[t].page) >= 1
        /\ ct_th[t].op = "~IndexIterator" =>
              ct_th[t].rwlatch = "none" /\ ct_th[t].rl = {} /\ ct_th[t].wl = {}

\* C19 (tree): whenever no operation is in progress and no iterator is live, every page
\* has pin count zero, and no UnpinPage was called on a page with pin count zero
PinsReturnedWhenIdle ==
    /\ ~ct_tree.zero_unpin
    /\ ThreadsIdle => ct_tree.pins = <<>>

(***************************************************************************)
(* Properties of the hash table called from several threads                *)
(***************************************************************************)
HashThreadsIdle == \A t \in HashThreads : ch_th[t].pc = "done"

\* C15: every boolean and every GetValue result returned to a thread is the one a set
\* of pairs gives at the step in which the operation takes effect, and every pair of
\* that set is found in the bucket page the directory slot of its key points to.
HashThreadsLinearizable ==
    ht_status = "ok" =>
        /\ \A t \in HashThreads : ch_th[t].agrees
        /\ \A pair \in ht_ref :
              LET index == LowBits(Hash(pair[1]), GetGlobalDepth(ht_dir)) IN
              IsExist(ht_buckets[GetBucketPageId(ht_dir, index)], pair[1], pair[2])

(***************************************************************************)
(* Structural invariants of the B+ tree after completed calls              *)
(***************************************************************************)
RECURSIVE TreePageIds(_, _)
\* the ids of the pages reached from page_id through the child pointers
TreePageIds(pages, page_id) ==
    IF page_id \notin DOMAIN pages THEN {}
    ELSE IF pages[page_id].leaf THEN {page_id}
    ELSE {page_id} \cup UNION {TreePageIds(pages, pages[page_id].vals[i]) :
                                   i \in 1..Len(pages[page_id].vals)}

RECURSIVE SubtreeKeys(_, _)
\* the keys stored in the leaves reached from page_id
SubtreeKeys(pages, page_id) ==
    IF page_id \notin DOMAIN pages THEN {}
    ELSE IF pages[page_id].leaf THEN {pages[page_id].keys[i] : i \in 1..Len(pages[page_id].keys)}
    ELSE UNION {SubtreeKeys(pages, pages[page_id].vals[i]) : i \in 1..Len(pages[page_id].vals)}

SetMin(S) == CHOOSE x \in S : \A y \in S : x <= y

\* the pages of the tree at root_page_id_ (none when the tree is empty)
LivePageIds == IF root_page_id_ = INVALID_PAGE_ID THEN {} ELSE TreePageIds(bt_pages, root_page_id_)

\* C26: after every completed Insert or Remove, every child listed in an internal page
\* names that page as its parent, and the root page has parent INVALID_PAGE_ID.
ParentPointersMatch ==
    (root_page_id_ # INVALID_PAGE_ID) =>
        /\ bt_pages[root_page_id_].parent = INVALID_PAGE_ID
        /\ \A p \in LivePageIds :
              ~bt_pages[p].leaf =>
                  \A i \in 1..Len(bt_pages[p].vals) :
                      /\ bt_pages[p].vals[i] \in DOMAIN bt_pages
                      /\ bt_pages[bt_pages[p].vals[i]].parent = p

\* a RemoveFromFile has left a tree of three levels: the root's children are internal
ParentsAfterRemoveFromFile ==
    /\ bt_last.op = "RemoveFromFile"
    /\ root_page_id_ # INVALID_PAGE_ID
    /\ ~bt_pages[root_page_id_].leaf
    /\ \E i \in 1..Len(bt_pages[root_page_id_].vals) :
          ~bt_pages[bt_pages[root_page_id_].vals[i]].leaf
    /\ Cardinality(bt_ref) < NumTreeKeys

NodeSizesWithinBounds ==
    \A p \in LivePageIds \ {root_page_id_} :
        /\ GetMinSize(bt_pages[p]) <= GetSize(bt_pages[p])
        /\ GetSize(bt_pages[p]) <= GetMaxSize(bt_pages[p])

\* C29: after every completed Insert or Remove, a tree that stores no key has
\* root_page_id_ = INVALID_PAGE_ID and has given up its root leaf, and a tree that stores
\* a key has for its root a leaf that is not empty or an internal page with at least two
\* children.
RootShape ==
    IF bt_ref = {}
    THEN root_page_id_ = INVALID_PAGE_ID /\ bt_pages = <<>>
    ELSE /\ root_page_id_ \in DOMAIN bt_pages
         /\ IF bt_pages[root_page_id_].leaf
            THEN GetSize(bt_pages[root_page_id_]) > 0
            ELSE GetSize(bt_pages[root_page_id_]) >= 2

(***************************************************************************)
(* The depths of the hash directory                                        *)
(***************************************************************************)
\* C30: in every reachable state of the hash table no split has written a directory
\* slot at an index of 2^MAX_DEPTH or more, the global depth is at most MAX_DEPTH, and
\* the local depth of every active slot lies between 0 and the global depth.
HashDepthsWithinBounds ==
    /\ ht_status # "overflow"
    /\ GetGlobalDepth(ht_dir) <= MAX_DEPTH
    /\ \A i \in 0..(DirSize(ht_dir) - 1) :
          /\ 0 <= GetLocalDepth(ht_dir, i)
          /\ GetLocalDepth(ht_dir, i) <= GetGlobalDepth(ht_dir)

(***************************************************************************)
(* Latch crabbing of Insert and Remove                                     *)
(***************************************************************************)
\* thread t is inside Insert or Remove, between the WLock of rwlatch_ and the return
Writing(t) ==
    /\ ct_th[t].op \in {"Insert", "Remove"}
    /\ ct_th[t].pc \in {"W_page", "W_neighbour"}

\* thread t is on its way down: the page it has fetched is not latched yet
Descending(t) == ct_th[t].op \in {"Insert", "Remove"} /\ ct_th[t].pc = "W_page"

RECURSIVE PagesAbove(_, _, _)
\* the pages found from page_id by following parent_page_id, at most n of them
PagesAbove(pages, page_id, n) ==
    IF n = 0 \/ page_id \notin DOMAIN pages THEN {}
    ELSE LET parent_id == pages[page_id].parent
         IN IF parent_id \notin DOMAIN pages THEN {}
            ELSE {parent_id} \cup PagesAbove(pages, parent_id, n - 1)

\* the entries of page p are not what they were, or the page is gone
EntriesChanged(p) ==
    \/ p \notin DOMAIN ct_tree'.pages
    \/ ct_tree'.pages[p].keys # ct_tree.pages[p].keys
    \/ ct_tree'.pages[p].vals # ct_tree.pages[p].vals

\* the page a step of thread t works on: the page it latches, or the underflowing node
TargetOf(t) == IF ct_th[t].pc = "W_page" THEN ct_th[t].page ELSE ct_th[t].node

\* in a step of thread t every page above its target whose entries change is write-latched
\* by t since the descent, and so is the root when root_page_id_ changes
AncestorsHeld(t) ==
    /\ \A p \in PagesAbove(ct_tree.pages, TargetOf(t), Cardinality(DOMAIN ct_tree.pages)) :
          EntriesChanged(p) => p \in ct_th[t].wl
    /\ (ct_tree'.root # ct_tree.root /\ ct_tree.root # TargetOf(t)) => ct_tree.root \in ct_th[t].wl

\* the pages thread t holds on its way down are its page set, a path that ends above the
\* page fetched; the topmost is the root, or else a page that passed the test for safety
HeldPath(t) ==
    LET th == ct_th[t]
        n == Len(th.page_set)
    IN /\ th.wl = {th.page_set[i] : i \in 1..n}
       /\ \A i \in 1..(n - 1) : ct_tree.pages[th.page_set[i + 1]].parent = th.page_set[i]
       /\ IF n = 0 THEN th.page = ct_tree.root /\ th.rwlatch = "W"
          ELSE /\ ct_tree.pages[th.page].parent = th.page_set[n]
               /\ \/ th.page_set[1] = ct_tree.root /\ th.rwlatch = "W"
                  \/ SafeFor(th.op, ct_tree.pages[th.page_set[1]])

\* a page that passed the test for safety is neither split nor left underflowing by the
\* step of thread t
SafeNodeStays(t) ==
    LET th == ct_th[t] IN
    (th.page_set # <<>> /\ th.rwlatch = "none") =>
        LET p == th.page_set[1] IN
        /\ p \in DOMAIN ct_tree'.pages
        /\ th.op = "Insert" => GetSize(ct_tree'.pages[p]) < GetMaxSize(ct_tree'.pages[p])
        /\ th.op = "Remove" => GetSize(ct_tree'.pages[p]) >= GetMinSize(ct_tree'.pages[p])

\* C21: whenever a step of Insert or Remove changes the entries of a page above its target
\* leaf, or replaces the root, the thread holds the write latch it took on that page on
\* its way down; what it holds on the way down is a path whose top is the root or a page
\* found safe; a page found safe is not split and does not underflow in that operation.
CrabbingKeepsAncestors ==
    [][\A t \in TreeThreads :
          (Writing(t) /\ ct_th'[t] # ct_th[t]) =>
              /\ AncestorsHeld(t)
              /\ Descending(t) => HeldPath(t)
              /\ SafeNodeStays(t)]_vars

\* a merge of two leaves has taken an entry from their parent and left it underflowing:
\* the thread, which holds the parent since its descent, goes on to adjust it
AncestorChangedByMerge ==
    \E t \in TreeThreads :
        /\ ct_th[t].op = "Remove" /\ ct_th[t].pc = "W_neighbour"
        /\ ~ct_tree.pages[ct_th[t].node].leaf
        /\ ct_th[t].node \in ct_th[t].wl

\* a thread on its way down has let go of rwlatch_ and of the pages above a safe page
ReleasedAtSafeNode ==
    \E t \in TreeThreads :
        /\ Descending(t) /\ ct_th[t].rwlatch = "none" /\ ct_th[t].page_set # <<>>

\* C23 as stated: a thread on its way down holds rwlatch_ only as long as no page it has
\* latched, the root included, is safe for the operation.
LatchReleasedAtFirstSafeNode ==
    \A t \in TreeThreads :
        (Descending(t) /\ ct_th[t].rwlatch = "W") =>
            \A p \in ct_th[t].wl : ~SafeFor(ct_th[t].op, ct_tree.pages[p])

\* C23, amended: a thread on its way down holds rwlatch_ only as long as no page it has
\* latched below the root is safe for the operation; the root itself is not tested.
LatchReleasedAtFirstSafeChild ==
    \A t \in TreeThreads :
        (Descending(t) /\ ct_th[t].rwlatch = "W") =>
            \A p \in ct_th[t].wl \ {ct_tree.root} : ~SafeFor(ct_th[t].op, ct_tree.pages[p])

(***************************************************************************)
(* rwlatch_ and root_page_id_                                              *)
(***************************************************************************)
\* thread t has read root_page_id_ and fetched that page, and has not latched it yet
RootFetched(t) ==
    \/ ct_th[t].pc = "W_page" /\ ct_th[t].page_set = <<>>
    \/ ct_th[t].pc = "R_page" /\ ct_th[t].rl = {}

\* the mode in which an operation locks rwlatch_
ModeOf(op) == IF op \in {"Insert", "Remove"} THEN "W" ELSE "R"

\* the step of thread t is made with rwlatch_ write-locked by t: t held it before the
\* step, or the step is the WLock of Insert or Remove and what follows it
StepHoldsWLock(t) ==
    \/ ct_th[t].rwlatch = "W"
    \/ /\ ct_th[t].pc \in {"done", "rwlatch_"}
       /\ ct_th'[t].op \in {"Insert", "Remove"}
       /\ LockAvailable("Insert")

\* C22: root_page_id_ changes only in a step of a thread that holds rwlatch_ in write
\* mode, which no other thread holds in any mode at the same time; a thread that has read
\* root_page_id_ and not yet latched the page it names still holds rwlatch_ in the mode
\* of its operation, and root_page_id_ is still what it has read.
RootGuardedByRwlatch ==
    [][/\ (Constructed /\ ct_tree'.root # ct_tree.root) =>
              \E t \in TreeThreads :
                  /\ ct_th'[t] # ct_th[t] \/ ct_ops' # ct_ops
                  /\ \A u \in TreeThreads \ {t} : ct_th'[u] = ct_th[u]
                  /\ StepHoldsWLock(t)
       /\ \A t \in TreeThreads :
             /\ ct_th[t].rwlatch = "W" =>
                   \A u \in TreeThreads \ {t} : ct_th[u].rwlatch = "none"
             /\ RootFetched(t) =>
                   /\ ct_th[t].rwlatch = ModeOf(ct_th[t].op)
                   /\ ct_th[t].page = ct_tree.root]_vars

\* one thread has changed root_page_id_ under its write lock while the other was waiting
\* in rwlatch_.RLock() or rwlatch_.WLock(): the root is now an internal page, or the
\* tree is empty, and the first thread is still inside or has just returned
RootChangedWhileOtherWaits ==
    \E t \in TreeThreads : \E u \in TreeThreads \ {t} :
        /\ ct_th[u].pc = "rwlatch_"
        /\ ct_th[t].op = "Remove" /\ ct_th[t].pc = "done" /\ ct_th[t].exit = "success"
        /\ ct_tree.root = INVALID_PAGE_ID

(***************************************************************************)
(* Pages are changed under their write latch                               *)
(***************************************************************************)
\* the pages thread t has write-latched while it changes entries in its step: those it
\* holds, the page it latches (151, 159, 329, 341) and the sibling it latches (436, 454,
\* 498, 516)
LatchedForEntries(t) ==
    ct_th[t].wl
        \cup (IF ct_th[t].pc = "W_page" THEN {ct_th[t].page} ELSE {})
        \cup (IF ct_th[t].pc = "W_neighbour"
              THEN {NeighbourOf(ct_tree, ct_th[t].node, ct_th[t].key)} ELSE {})

\* the pages thread t has write-latched while it rewrites parent_page_id in its step: the
\* sibling is unlatched (450, 468, 508, 533) before the parent is looked at (472, 537)
LatchedForParent(t) ==
    ct_th[t].wl \cup (IF ct_th[t].pc = "W_page" THEN {ct_th[t].page} ELSE {})

\* C24 (tree): a step of Insert or Remove changes the entries or the next_page_id of a
\* page that was there before only if the thread has that page write-latched, and
\* rewrites the parent_page_id of such a page only if it has that page write-latched.
PagesChangedUnderWriteLatch ==
    [][\A t \in TreeThreads :
          (Writing(t) /\ ct_th'[t] # ct_th[t]) =>
              \A p \in (DOMAIN ct_tree.pages) \cap (DOMAIN ct_tree'.pages) :
                  /\ [ct_tree'.pages[p] EXCEPT !.parent = 0] # [ct_tree.pages[p] EXCEPT !.parent = 0]
                        => p \in LatchedForEntries(t)
                  /\ ct_tree'.pages[p].parent # ct_tree.pages[p].parent
                        => p \in LatchedForParent(t)]_vars

(***************************************************************************)
(* The order in which latches are taken                                    *)
(***************************************************************************)
\* the page latches thread t holds
PagesHeld(t) == ct_th[t].wl \cup ct_th[t].rl \cup ct_th[t].end_rl

\* the step of thread t calls rwlatch_.RLock() or rwlatch_.WLock(), or returns from it
TakesTreeLatch(t) ==
    /\ ct_th'[t] # ct_th[t]
    /\ ct_ops' # ct_ops \/ ct_th[t].pc \in {"rwlatch_", "End rwlatch_"}

\* the pages the step of thread t latches
PagesTaken(t) ==
    IF ct_th'[t] = ct_th[t] THEN {}
    ELSE CASE ct_th[t].pc \in {"W_page", "R_page", "iterator latch"} -> {ct_th[t].page}
           [] ct_th[t].pc = "End R_page" -> {ct_th[t].end_page}
           [] ct_th[t].pc = "W_neighbour" ->
                  {NeighbourOf(ct_tree, ct_th[t].node, ct_th[t].key)} \ {INVALID_PAGE_ID}
           [] OTHER -> {}

\* C25 (tree): a thread that calls rwlatch_.RLock() or rwlatch_.WLock() holds no page
\* latch; a thread that latches a page holds no latch on that page or on a page below
\* it; a sibling is latched only by a thread that holds the write latch of the parent.
LatchesTakenTopDown ==
    [][\A t \in TreeThreads :
          /\ TakesTreeLatch(t) => PagesHeld(t) = {}
          /\ \A p \in PagesTaken(t) : \A q \in PagesHeld(t) :
                /\ p # q
                /\ p \notin PagesAbove(ct_tree.pages, q, Cardinality(DOMAIN ct_tree.pages))
          /\ (ct_th'[t] # ct_th[t] /\ ct_th[t].pc = "W_neighbour") =>
                \A p \in PagesTaken(t) : ct_tree.pages[ct_th[t].node].parent \in ct_th[t].wl]_vars

(***************************************************************************)
(* Termination of the split loop                                           *)
(***************************************************************************)
\* C31: in every reachable table state and for every new pair whose bucket is full,
\* SplitInsert leaves its split loop after finitely many splits inside the directory
\* and returns true with the pair stored.
SplitInsertTerminates ==
    ht_status = "ok" =>
        \A key \in HashKeys : \A value \in HashValues :
            LET index == LowBits(Hash(key), GetGlobalDepth(ht_dir))
                bkt == ht_buckets[GetBucketPageId(ht_dir, index)]
                r == SplitInsert(HTTable, key, value)
            IN (IsFull(bkt) /\ ~IsExist(bkt, key, value)) =>
                  /\ r.T.status = "ok"
                  /\ r.ret
                  /\ Occurrences(HTGetValue(r.T, key), value) >= 1

(***************************************************************************)
(* Remove and Merge                                                        *)
(***************************************************************************)
\* the merge condition of Remove 253 and Merge 281 for the bucket of key
Mergeable(T, key) ==
    LET index == LowBits(Hash(key), GetGlobalDepth(T.dir))
        local_depth == GetLocalDepth(T.dir, index)
    IN /\ local_depth > 0
       /\ GetLocalDepth(T.dir, ImageIndex(index, local_depth)) = local_depth
       /\ IsEmpty(T.buckets[GetBucketPageId(T.dir, index)])

\* Merge, entered when its condition does not hold (any more), changes nothing
MergeRechecks ==
    ht_status = "ok" =>
        \A key \in HashKeys : \A value \in HashValues :
            ~Mergeable(HTTable, key) => Merge(HTTable, key, value) = HTTable

\* what a Remove(key, value) that emptied a mergeable bucket has done when it returns
MergedAway(key, value) ==
    LET index == LowBits(Hash(key), GetGlobalDepth(ht_dir))
        bucket_page_id == GetBucketPageId(ht_dir, index)
        local_depth == GetLocalDepth(ht_dir, index)
        image_index == ImageIndex(index, local_depth)
        image_bucket_page_id == GetBucketPageId(ht_dir, image_index)
        rem == MyRemove(ht_buckets[bucket_page_id], key, value)
        groups == {i \in ActiveSlots(ht_dir) :
                      LowBits(i, local_depth - 1) = LowBits(index, local_depth - 1)}
        slot == LowBits(index, GetGlobalDepth(ht_dir'))
        merged_depth == GetLocalDepth(ht_dir', slot)
        merged_page_id == GetBucketPageId(ht_dir', slot)
    IN IF rem.ok /\ Mergeable([HTTable EXCEPT !.buckets[bucket_page_id] = rem.bucket], key)
       THEN /\ bucket_page_id \notin DOMAIN ht_buckets'
            /\ \A i \in ActiveSlots(ht_dir') : GetBucketPageId(ht_dir', i) # bucket_page_id
            /\ merged_depth < local_depth
            /\ \A i \in groups \cap ActiveSlots(ht_dir') :
                  /\ GetBucketPageId(ht_dir', i) = merged_page_id
                  /\ GetLocalDepth(ht_dir', i) = merged_depth
            /\ merged_depth = local_depth - 1 => merged_page_id = image_bucket_page_id
            /\ ~Mergeable([dir |-> ht_dir', buckets |-> ht_buckets', status |-> "ok"], key)
            /\ (GetGlobalDepth(ht_dir') < GetGlobalDepth(ht_dir))
                  <=> (\A i \in ActiveSlots(ht_dir) \ groups :
                          GetLocalDepth(ht_dir, i) < GetGlobalDepth(ht_dir))
            /\ GetGlobalDepth(ht_dir') <= GetGlobalDepth(ht_dir)
            /\ \/ GetGlobalDepth(ht_dir') = 0
               \/ \E i \in ActiveSlots(ht_dir') :
                     GetLocalDepth(ht_dir', i) = GetGlobalDepth(ht_dir')
       ELSE /\ ht_dir' = ht_dir
            /\ DOMAIN ht_buckets' = DOMAIN ht_buckets

HashImplementationsAgree ==
    /\ h2_last.first = h2_last.second
    /\ ht_status = h2_status
    /\ ht_status = "ok" =>
          /\ GetGlobalDepth(ht_dir) = GetGlobalDepth(h2_dir)
          /\ \A key \in HashKeys : \A value \in HashValues :
                Occurrences(HTGetValue(HTTable, key), value)
                    = Occurrences(HTGetValue(HT2Table, key), value)

(***************************************************************************)
(* Reads of the hash table's pages and the latches that cover them         *)
(***************************************************************************)
\* the test of Remove 249-253 on the values the pages hold while thread t has its
\* bucket write-latched and pinned: the directory as it is, the bucket without the pair
LatchedMergeTest(t) ==
    LET th == ch_th[t]
        local_depth == GetLocalDepth(ht_dir, th.index)
        image_index == ImageIndex(th.index, local_depth)
    IN /\ local_depth > 0
       /\ GetLocalDepth(ht_dir, image_index) = local_depth
       /\ IsEmpty(MyRemove(ht_buckets[th.bucket_page_id], th.key, th.value).bucket)

\* thread t removes its pair in this step and goes on to Merge or returns
RemoveDecides(t) ==
    /\ ch_th[t].pc = "page latch"
    /\ ch_th[t].op = "Remove"
    /\ ch_th'[t].pc \in {"Merge", "done"}
    /\ ch_th'[t].ret

\* C34: the hash table reads directory contents under table_latch_ and a pin of its own
\* and bucket contents under the page latch and a pin of its own, so that Remove
\* decides to call Merge from the local depths and the emptiness it read under them.
MergeDecidedUnderLatches ==
    [][\A t \in HashThreads :
          RemoveDecides(t) => ((ch_th'[t].pc = "Merge") <=> LatchedMergeTest(t))]_vars

(***************************************************************************)
(* Pages detached from the tree                                            *)
(***************************************************************************)
\* thread t returns from Remove in this step
RemoveReturning(t) ==
    /\ ct_th[t].op = "Remove"
    /\ ct_th[t].pc # "done"
    /\ ct_th'[t].pc = "done"
    /\ ct_th'[t].exit = "success"

\* C35: when Remove returns, every page it has detached from the tree has been deleted
\* from the buffer pool: the pages still allocated are those of the tree and those in
\* the deleted page set of a Remove that has not returned yet.
DetachedPagesDeleted ==
    [][\A t \in TreeThreads :
          RemoveReturning(t) =>
             \A q \in DOMAIN ct_tree'.pages :
                \/ q \in TreePageIds(ct_tree'.pages, ct_tree'.root)
                \/ \E u \in TreeThreads \ {t} : q \in ct_th'[u].deleted]_vars

(***************************************************************************)
(* The iterator at a leaf boundary                                         *)
(***************************************************************************)
\* the iterator of thread t takes the read latch of the next leaf in this step
IteratorLands(t) ==
    /\ ct_th[t].pc = "iterator latch"
    /\ ct_th'[t].pc = "iterator"

\* C36: an iterator that moves on to the next leaf while other threads insert and
\* remove lands on a leaf of the tree, never on a page that was merged into its
\* sibling, emptied or deleted.
IteratorLandsOnTreeLeaf ==
    [][\A t \in TreeThreads :
          IteratorLands(t) =>
             /\ ct_th'[t].page \in TreePageIds(ct_tree'.pages, ct_tree'.root)
             /\ ct_tree'.pages[ct_th'[t].page].leaf]_vars

(***************************************************************************)
(* Begin(key)                                                              *)
(***************************************************************************)
\* Begin(key), 610-615, and the loop  for (; !it.IsEnd(); ++it) out.push_back((*it).first)
ScanFromKey(pages, root, key) ==
    LET leaf_id == FindLeaf(pages, root, key, 0)
        index == LeafKeyIndex(pages[leaf_id], key)
    IN IterateFrom(pages, leaf_id, index, <<>>)

\* C37: on a non-empty tree Begin(k) stands on the smallest stored key >= k, or at the
\* end when there is none; the scan from it applies operator* only below the leaf's
\* size, yields exactly the stored keys >= k in ascending order and reaches IsEnd().
BeginKeyYieldsTail ==
    root_page_id_ # INVALID_PAGE_ID =>
        \A key \in 0..(NumTreeKeys + 1) :
            LET scan == ScanFromKey(bt_pages, root_page_id_, key)
            IN /\ scan.end = "IsEnd"
               /\ scan.keys = SortedSeq({k \in StoredKeys(bt_ref) : k >= key})

(***************************************************************************)
(* The start index of the parallel buffer pool manager                     *)
(***************************************************************************)
\* the NewPgImp calls that have read and bumped the start index
StartsRead == np_calls - Cardinality({c \in Callers : np_pc[c] = "locked"})

\* C38: every NewPgImp call, with or without a page as its result, moves the start
\* index on by one modulo the number of instances; the read and the increment are one
\* step under latch_, so the j-th call reads (j - 1) mod N and no increment is lost;
\* the instances are called with latch_ released.
StartIndexAdvances ==
    /\ [](start_index_ = StartsRead % NumInstances)
    /\ [](\A c \in Callers : np_pc[c] \in {"loop", "done"} => latch_holder # c)
    /\ [][\A c \in Callers :
             (np_pc[c] = "locked" /\ np_pc'[c] = "loop") =>
                 /\ np_curr'[c] = (np_calls - 1) % NumInstances
                 /\ start_index_' = np_calls % NumInstances]_vars

\* two calls in flight at once that have read the last and, wrapped around, the first
\* start value, after calls that returned null
TwoCallsReadAcrossWrap ==
    \E c \in Callers : \E d \in Callers \ {c} :
        /\ np_pc[c] = "loop" /\ np_pc[d] = "loop"
        /\ np_curr[c] = NumInstances - 1
        /\ np_curr[d] = 0
        /\ start_index_ = 1
        /\ \A inst \in Instances : bpi_free[inst] = 0

(***************************************************************************)
(* The occupied prefix of a bucket page                                    *)
(***************************************************************************)
\* the pairs of the readable slots among slots i.., in slot order, whatever the occupied bits say
RECURSIVE LivePairsFrom(_, _, _)
LivePairsFrom(bkt, i, key) ==
    IF i >= BUCKET_ARRAY_SIZE THEN <<>>
    ELSE (IF IsReadable(bkt, i) /\ (key = -1 \/ bkt.array_[i][1] = key)
          THEN <<bkt.array_[i]>> ELSE <<>>) \o LivePairsFrom(bkt, i + 1, key)

\* C39: after any sequence of Insert, MyInsert, Remove, MyRemove, RemoveAt and Clear the
\* occupied slots of a bucket page are a prefix 0..m-1 of the slot array and every
\* readable slot lies in it, so the scans that break at the first non-occupied slot
\* (GetValue, MyGetValue, IsExist, Remove, MyRemove, GetAllPairs) see every live pair.
OccupiedSlotsFormPrefix ==
    /\ [](\E m \in 0..BUCKET_ARRAY_SIZE :
             /\ \A i \in Slots : IsOccupied(bp_page, i) <=> i < m
             /\ \A i \in Slots : IsReadable(bp_page, i) => i < m)
    /\ [](/\ GetAllPairs(bp_page) = LivePairsFrom(bp_page, 0, -1)
          /\ \A key \in HashKeys : MyGetValue(bp_page, key) = LivePairsFrom(bp_page, 0, key)
          /\ \A key \in HashKeys, value \in HashValues :
                IsExist(bp_page, key, value) <=>
                    \E i \in Slots : IsReadable(bp_page, i) /\ bp_page.array_[i] = <<key, value>>)
    /\ [][bp_last'.op \in {"Remove", "MyRemove"} =>
            (bp_last'.ret = TRUE <=>
                \E i \in Slots : /\ IsReadable(bp_page, i)
                                 /\ bp_page.array_[i] = <<bp_last'.key, bp_last'.value>>)]_vars

\* MyInsert took the slot of a tombstone that lies before a live pair, and the scan
\* yields both pairs
MyInsertReusedTombstoneBelowLivePair ==
    /\ bp_last.op = "MyInsert" /\ bp_last.ret = TRUE
    /\ \E i \in Slots : \E j \in Slots :
          /\ i < j
          /\ IsOccupied(bp_last.before, i) /\ ~IsReadable(bp_last.before, i)
          /\ IsReadable(bp_last.before, j)
          /\ SlotOf(bp_page, i) = <<TRUE, TRUE, <<bp_last.key, bp_last.value>>>>
          /\ bp_page.array_[j] # bp_page.array_[i]
          /\ Len(GetAllPairs(bp_page)) >= 2

(***************************************************************************)
(* IsFull, NumReadable and IsEmpty against the readable bits               *)
(***************************************************************************)
\* the slots below bm_size whose readable bit is set
ReadableSlots == {i \in 0..(bm_size - 1) : BitOf(bm_readable[i \div 8], i % 8) = 1}

\* C40: for every BUCKET_ARRAY_SIZE, a multiple of 8 or not, and every readable bitmap
\* the bucket operations can produce, with the bytes held in signed chars (and in
\* unsigned chars as well): NumReadable() is the number of slots below
\* BUCKET_ARRAY_SIZE whose readable bit is set, IsFull() is true iff that number is
\* BUCKET_ARRAY_SIZE, and IsEmpty() is true iff it is zero.
BitmapCountsAgree ==
    bm_size > 0 =>
        /\ NumReadable(bm_readable, bm_size, bm_signed) = U32(Cardinality(ReadableSlots))
        /\ IsFullOfSize(bm_readable, bm_size, bm_signed) <=> Cardinality(ReadableSlots) = bm_size
        /\ IsEmptyOfSize(bm_readable, bm_size, bm_signed) <=> Cardinality(ReadableSlots) = 0

\* a full page of more than 8 slots, not a multiple of 8, in a build with signed chars:
\* byte 0 holds 0xFF, which reads as -1
FullBitmapOfSignedChars ==
    /\ bm_signed
    /\ bm_size > 8 /\ bm_size % 8 # 0
    /\ bm_readable[0] = 255
    /\ CharToInt(bm_readable[0], bm_signed) = -1
    /\ Cardinality(ReadableSlots) = bm_size
====
